---- MODULE Spec2Model ----
(***************************************************************************)
(* Gregorian calendar algorithms of calendar.hpp (Neri and Schneider),     *)
(* modelled with the storage widths of the C++ types.                      *)
(*                                                                         *)
(* A machine integer of up to 32 bits is a pair <<hi, lo>> of 16-bit       *)
(* halves (its bit pattern, two's complement for the signed types); the    *)
(* one 64-bit product of to_date keeps the bits above 2^32 in hi.  All     *)
(* arithmetic is carried out on the halves and reduced modulo 2^w.         *)
(***************************************************************************)
EXTENDS Integers, Sequences, FiniteSets, TLC

---------------------------------------------------------------------------
(* Machine integers                                                        *)

\* std::uint32_t(1) << 16
p16 == 65536

\* The storage types the engines are instantiated with.
uint16_t == [bits |-> 16, signed |-> FALSE]
int16_t  == [bits |-> 16, signed |-> TRUE]
uint32_t == [bits |-> 32, signed |-> FALSE]
int32_t  == [bits |-> 32, signed |-> TRUE]

\* Carry propagation: the pair denoting hi * 2^16 + lo.
Norm(hi, lo) == <<hi + (lo \div p16), lo % p16>>

\* Reduction modulo 2^32 (conversion to std::uint32_t).
U32(x) == <<x[1] % p16, x[2]>>

\* An integer literal (|n| < 2^31) converted to std::uint32_t.
Lit(n) == U32(Norm(0, n))

\* Conversion of a 32-bit pattern to the storage type T (truncation).
Cast(T, x) == IF T.bits = 16 THEN <<0, x[2]>> ELSE U32(x)

\* Conversion of a value of type T to 32 bits: sign extension for the signed
\* types, zero extension otherwise.
Extend(T, x) ==
  IF T.bits = 16 /\ T.signed /\ x[2] >= 32768 THEN <<p16 - 1, x[2]>> ELSE x

\* std::numeric_limits<T>::max() and min().
MaxOf(T) ==
  IF T.bits = 16 THEN <<0, IF T.signed THEN 32767 ELSE 65535>>
  ELSE <<IF T.signed THEN 32767 ELSE 65535, 65535>>

MinOf(T) ==
  IF ~T.signed THEN <<0, 0>>
  ELSE IF T.bits = 16 THEN <<0, 32768>> ELSE <<32768, 0>>

\* Order of the values of type T: the sign bit is biased away for signed T.
Key(T, x) ==
  IF ~T.signed THEN x
  ELSE IF T.bits = 16 THEN <<0, (x[2] + 32768) % p16>>
  ELSE <<(x[1] + 32768) % p16, x[2]>>

Less(T, x, y) ==
  LET a == Key(T, x)
      b == Key(T, y)
  IN  a[1] < b[1] \/ (a[1] = b[1] /\ a[2] < b[2])

\* The mathematical value of x of type T, when it fits the model's integers.
Val(T, x) ==
  IF T.bits = 16 THEN (IF T.signed /\ x[2] >= 32768 THEN x[2] - p16 ELSE x[2])
  ELSE (IF T.signed /\ x[1] >= 32768 THEN x[1] - p16 ELSE x[1]) * p16 + x[2]

\* The value n (an integer the type can hold) as an object of type T.
Of(T, n) == Cast(T, Lit(n))

\* A local variable: the function [v \in {e} |-> body] stands for the
\* statement v = e followed by body; e is evaluated once.
Let(f) == CHOOSE r \in {g[CHOOSE v \in DOMAIN g : TRUE] : g \in {f}} : TRUE

Add32(x, y) ==
  Let([a \in {x} |-> Let([b \in {y} |->
    <<(a[1] + b[1] + ((a[2] + b[2]) \div p16)) % p16, (a[2] + b[2]) % p16>>])])

Sub32(x, y) ==
  Let([a \in {x} |-> Let([b \in {y} |->
    <<(a[1] - b[1] + ((a[2] - b[2]) \div p16)) % p16, (a[2] - b[2]) % p16>>])])

\* One step of Horner's scheme on the bytes of a constant: acc * 256 + v * c.
Horner(acc, v, c) == Norm(acc[1] * 256 + v[1] * c, acc[2] * 256 + v[2] * c)

\* The 64-bit product of the constant c < 2^24 and the 32-bit x, the bits
\* above 2^32 kept in the high half.
MulWide(c, x) ==
  Let([v \in {x} |->
  Let([a2 \in {Horner(<<0, 0>>, v, c \div p16)} |->
  Let([a1 \in {Horner(a2, v, (c \div 256) % 256)} |->
  Horner(a1, v, c % 256)])])])

\* The product modulo 2^32 of the constant c (0 <= c < 2^31) and x.
Mul32(c, x) ==
  Let([v \in {x} |->
  Let([a3 \in {U32(Horner(<<0, 0>>, v, c \div 16777216))} |->
  Let([a2 \in {U32(Horner(a3, v, (c \div p16) % 256))} |->
  Let([a1 \in {U32(Horner(a2, v, (c \div 256) % 256))} |->
  U32(Horner(a1, v, c % 256))])])])])

\* Unsigned division of the 32-bit x by the constant d (0 < d < 2^23): long
\* division, the low half taken one byte at a time.
DivMod32(x, d) ==
  Let([v \in {x} |->
  Let([t1 \in {(v[1] % d) * 256 + (v[2] \div 256)} |->
  Let([t0 \in {(t1 % d) * 256 + (v[2] % 256)} |->
  [quot |-> U32(Norm(v[1] \div d, (t1 \div d) * 256 + (t0 \div d))),
   rem  |-> Lit(t0 % d)]])])])

Div32(x, d) == DivMod32(x, d).quot

Mod32(x, d) == DivMod32(x, d).rem

\* Bitwise operators on small non-negative integers (month arithmetic).
RECURSIVE BitXor(_, _)
BitXor(a, b) ==
  IF a = 0 /\ b = 0 THEN 0
  ELSE ((a + b) % 2) + 2 * BitXor(a \div 2, b \div 2)

RECURSIVE BitAnd(_, _)
BitAnd(a, b) ==
  IF a = 0 \/ b = 0 THEN 0
  ELSE (IF a % 2 = 1 /\ b % 2 = 1 THEN 1 ELSE 0) + 2 * BitAnd(a \div 2, b \div 2)

RECURSIVE BitOr(_, _)
BitOr(a, b) ==
  IF a = 0 /\ b = 0 THEN 0
  ELSE (IF a % 2 = 1 \/ b % 2 = 1 THEN 1 ELSE 0) + 2 * BitOr(a \div 2, b \div 2)

---------------------------------------------------------------------------
(* Dates                                                                   *)

\* date_t<Y>{year, month, day}: the year is an object of type Y, month_t and
\* day_t are std::uint8_t values.
Date(year, month, day) == [year |-> year, month |-> month, day |-> day]

\* operator < of date_t<Y>: lexicographical order.
DateLess(Y, u, v) ==
  IF Less(Y, u.year, v.year) THEN TRUE
  ELSE IF Less(Y, v.year, u.year) THEN FALSE
  ELSE IF u.month < v.month THEN TRUE
  ELSE IF u.month > v.month THEN FALSE
  ELSE u.day < v.day

\* operator <= of date_t<Y>.
DateLessEq(Y, u, v) == ~DateLess(Y, v, u)

\* max<date_t<Y>> and min<date_t<Y>>.
max_date(Y) == Date(MaxOf(Y), 12, 31)

min_date(Y) == Date(MinOf(Y), 1, 1)

---------------------------------------------------------------------------
(* Primitives                                                              *)

\* n % k == 0 for n of type T.
IsMultipleOf(T, n, k) ==
  IF T = uint32_t THEN Mod32(n, k) = <<0, 0>> ELSE Val(T, n) % k = 0

\* is_multiple_of_100(std::int32_t): the mcomp algorithm.
mcomp_multiplier == 42949673

mcomp_bound == 42949669

mcomp_max_dividend == 1073741799

mcomp_offset == ((mcomp_max_dividend \div 2) \div 100) * 100

\* A mutation of is_multiple_of_100_mcomp: the dividend is not offset.
is_multiple_of_100_mcomp_no_offset(n) ==
  Less(uint32_t, Mul32(mcomp_multiplier, n), Lit(mcomp_bound))

is_multiple_of_100_mcomp(n) ==
  Less(uint32_t, Mul32(mcomp_multiplier, Add32(n, Lit(mcomp_offset))),
       Lit(mcomp_bound))

\* Overload resolution: the non-template overload is taken for std::int32_t
\* arguments only; every other type instantiates the template (operator %).
is_multiple_of_100(T, n) ==
  IF T = int32_t THEN is_multiple_of_100_mcomp(n) ELSE IsMultipleOf(T, n, 100)

\* A mutation of is_leap_year: the mask is 3 for every year.
is_leap_year_every_fourth(T, y) == BitAnd(y[2], 3) = 0

\* is_leap_year of calendar.hpp: (y & (is_multiple_of_100(y) ? 15 : 3)) == 0,
\* the mask taken on the two's complement pattern.
is_leap_year(T, y) ==
  BitAnd(y[2], IF is_multiple_of_100(T, y) THEN 15 ELSE 3) = 0

\* is_leap_year of date.hpp.
date_hpp_is_leap_year(T, year) ==
  (~is_multiple_of_100(T, year) \/ IsMultipleOf(T, year, 16))
    /\ IsMultipleOf(T, year, 4)

\* A mutation of last_day_of_month: the month is shifted by 2 bits.
last_day_of_month_shift_2(T, y, m) ==
  IF m # 2 THEN BitOr(BitXor(m, m \div 4), 30) % 256
  ELSE IF is_leap_year(T, y) THEN 29 ELSE 28

\* last_day_of_month of calendar.hpp.
last_day_of_month(T, y, m) ==
  IF m # 2 THEN BitOr(BitXor(m, m \div 8), 30) % 256
  ELSE IF is_leap_year(T, y) THEN 29 ELSE 28

\* last_day_of_month of date.hpp.
date_hpp_last_day_of_month(T, year, month) ==
  IF month # 2 THEN BitOr(BitAnd(BitXor(month, month \div 8), 1), 30) % 256
  ELSE IF date_hpp_is_leap_year(T, year) THEN 29 ELSE 28

---------------------------------------------------------------------------
(* ugregorian_t<Y, R>, R = std::uint32_t in every instantiation            *)

ugregorian_epoch == Date(<<0, 0>>, 3, 1)

\* A mutation of ugregorian_to_rata_die: the year count leaves out q1 / 4.
ugregorian_to_rata_die_no_400(Y, u1) ==
  Let([j \in {u1.month < 3} |->
  Let([y0 \in {Sub32(Extend(Y, u1.year), Lit(IF j THEN 1 ELSE 0))} |->
  Let([m0 \in {IF j THEN Add32(Lit(u1.month), Lit(12)) ELSE Lit(u1.month)} |->
  Let([d0 \in {Sub32(Lit(u1.day), Lit(1))} |->
  Let([q1 \in {Div32(y0, 100)} |->
  Let([yc \in {Sub32(Div32(Mul32(1461, y0), 4), q1)} |->
  Let([mc \in {Div32(Sub32(Mul32(979, m0), Lit(2919)), 32)} |->
  Let([dc \in {d0} |->
  Add32(Add32(yc, mc), dc)])])])])])])])])

\* A mutation of ugregorian_to_rata_die: only January belongs to the previous
\* year.
ugregorian_to_rata_die_february(Y, u1) ==
  Let([j \in {u1.month < 2} |->
  Let([y0 \in {Sub32(Extend(Y, u1.year), Lit(IF j THEN 1 ELSE 0))} |->
  Let([m0 \in {IF j THEN Add32(Lit(u1.month), Lit(12)) ELSE Lit(u1.month)} |->
  Let([d0 \in {Sub32(Lit(u1.day), Lit(1))} |->
  Let([q1 \in {Div32(y0, 100)} |->
  Let([yc \in {Add32(Sub32(Div32(Mul32(1461, y0), 4), q1), Div32(q1, 4))} |->
  Let([mc \in {Div32(Sub32(Mul32(979, m0), Lit(2919)), 32)} |->
  Let([dc \in {d0} |->
  Add32(Add32(yc, mc), dc)])])])])])])])])

\* A mutation of ugregorian_to_rata_die: the year count is that of the
\* Julian calendar, every fourth year a leap year.
ugregorian_to_rata_die_julian(Y, u1) ==
  Let([j \in {u1.month < 3} |->
  Let([y0 \in {Sub32(Extend(Y, u1.year), Lit(IF j THEN 1 ELSE 0))} |->
  Let([m0 \in {IF j THEN Add32(Lit(u1.month), Lit(12)) ELSE Lit(u1.month)} |->
  Let([d0 \in {Sub32(Lit(u1.day), Lit(1))} |->
  Let([yc \in {Div32(Mul32(1461, y0), 4)} |->
  Let([mc \in {Div32(Sub32(Mul32(979, m0), Lit(2919)), 32)} |->
  Let([dc \in {d0} |->
  Add32(Add32(yc, mc), dc)])])])])])])])

ugregorian_to_rata_die(Y, u1) ==
  Let([j \in {u1.month < 3} |->
  Let([y0 \in {Sub32(Extend(Y, u1.year), Lit(IF j THEN 1 ELSE 0))} |->
  Let([m0 \in {IF j THEN Add32(Lit(u1.month), Lit(12)) ELSE Lit(u1.month)} |->
  Let([d0 \in {Sub32(Lit(u1.day), Lit(1))} |->
  Let([q1 \in {Div32(y0, 100)} |->
  Let([yc \in {Add32(Sub32(Div32(Mul32(1461, y0), 4), q1), Div32(q1, 4))} |->
  Let([mc \in {Div32(Sub32(Mul32(979, m0), Lit(2919)), 32)} |->
  Let([dc \in {d0} |->
  Add32(Add32(yc, mc), dc)])])])])])])])])

\* The product 1461 * y0 of ugregorian_to_rata_die, before its reduction to
\* rata_die_t: the bits above 2^32 are in the high half.
ugregorian_to_rata_die_product(Y, u1) ==
  Let([j \in {u1.month < 3} |->
  Let([y0 \in {Sub32(Extend(Y, u1.year), Lit(IF j THEN 1 ELSE 0))} |->
  MulWide(1461, y0)])])

\* A mutation of ugregorian_year_count: the year count leaves out q1 / 4.
ugregorian_year_count_no_400(y0) ==
  Let([q1 \in {Div32(y0, 100)} |->
  Sub32(Div32(Mul32(1461, y0), 4), q1)])

\* The year count yc of ugregorian_to_rata_die at the year y0.
ugregorian_year_count(y0) ==
  Let([q1 \in {Div32(y0, 100)} |->
  Add32(Sub32(Div32(Mul32(1461, y0), 4), q1), Div32(q1, 4))])

\* The year count 365 * z + z / 4 - z / 100 + z / 400 of baum::to_rata_die,
\* for a year z that is not negative.
baum_year_count(z) ==
  Add32(Sub32(Add32(Mul32(365, z), Div32(z, 4)), Div32(z, 100)), Div32(z, 400))

\* A mutation of ugregorian_month_count: the coefficients that round up,
\* those of the test month_count_rounding_up.
ugregorian_month_count_rounding_up(m0) ==
  Div32(Sub32(Mul32(980, m0), Lit(2928)), 32)

\* The month count mc of ugregorian_to_rata_die at the month m0, which is
\* month_count_fast of the test month_count_rounding_down.
ugregorian_month_count(m0) ==
  Div32(Sub32(Mul32(979, m0), Lit(2919)), 32)

\* A mutation of date_hpp_month_count: the offset is 2923.
date_hpp_month_count_2923(m_) ==
  Div32(Sub32(Mul32(979, m_), Lit(2923)), 32)

\* The month count of to_rata_die of date.hpp at the month m_.
date_hpp_month_count(m_) ==
  Div32(Sub32(Mul32(979, m_), Lit(2922)), 32)

\* month_count of the fast tests, on std::uint32_t.
month_count(n) == Div32(Sub32(Mul32(153, n), Lit(457)), 5)

\* month of the fast tests, on std::uint32_t.
test_month(n) == Div32(Add32(Mul32(5, n), Lit(461)), 153)

\* A mutation of month_fast: the multiplier is 2140.
month_fast_2140(n) == Lit(Add32(Mul32(2140, n), Lit(197913))[1])

\* month_fast of fast/month_rounding_down, on std::uint32_t.
month_fast(n) == Lit(Add32(Mul32(2141, n), Lit(197913))[1])

\* day_fast of fast/month_rounding_down, on std::uint32_t.
day_fast(n) == Lit(Add32(Mul32(2141, n), Lit(197913))[2] \div 2142)

\* q3 and r3 of ugregorian_t::to_date, of the day r2 of the year.
ugregorian_month_day(r2) ==
  Let([n3 \in {Add32(Mul32(2141, r2), Lit(197913))} |->
  [q3 |-> Lit(n3[1]), r3 |-> Lit(n3[2] \div 2141)]])

\* A mutation of division_by_1461: the multiplier is 2939744.
division_by_1461_2939744(n) ==
  Let([u \in {MulWide(2939744, n)} |->
  [q |-> Lit(u[1] \div p16), r |-> Div32(U32(u), 2939744)]])

\* q and r of the loop of fast/division_by_1461, and q2 and 4 * r2 + x of
\* ugregorian_t::to_date.
division_by_1461(n) ==
  Let([u \in {MulWide(2939745, n)} |->
  [q |-> Lit(u[1] \div p16), r |-> Div32(U32(u), 2939745)]])

\* n2 of ugregorian_t::to_date.
ugregorian_to_date_n2(r0) ==
  Let([n1 \in {Add32(Mul32(4, r0), Lit(3))} |->
  Let([r1 \in {Div32(Mod32(n1, 146097), 4)} |->
  Add32(Mul32(4, r1), Lit(3))])])

\* A mutation of ugregorian_to_date: January starts at r2 > 306.
ugregorian_to_date_late_january(Y, r0) ==
  Let([n1 \in {Add32(Mul32(4, r0), Lit(3))} |->
  Let([q1 \in {Div32(n1, 146097)} |->
  Let([r1 \in {Div32(Mod32(n1, 146097), 4)} |->
  Let([n2 \in {Add32(Mul32(4, r1), Lit(3))} |->
  Let([u2 \in {MulWide(2939745, n2)} |->
  Let([q2 \in {Lit(u2[1] \div p16)} |->
  Let([r2 \in {Div32(Div32(U32(u2), 2939745), 4)} |->
  Let([n3 \in {Add32(Mul32(2141, r2), Lit(197913))} |->
  Let([q3 \in {Lit(n3[1])} |->
  Let([r3 \in {Lit(n3[2] \div 2141)} |->
  Let([y0 \in {Add32(Mul32(100, q1), q2)} |->
  Let([j \in {~Less(uint32_t, r2, Lit(307))} |->
  Let([y1 \in {Add32(y0, Lit(IF j THEN 1 ELSE 0))} |->
  Let([m1 \in {IF j THEN Sub32(q3, Lit(12)) ELSE q3} |->
  Let([d1 \in {Add32(r3, Lit(1))} |->
  Date(Cast(Y, y1), m1[2] % 256, d1[2] % 256)])])])])])])])])])])])])])])])

\* A mutation of ugregorian_to_date: 400 years have 146096 days.
ugregorian_to_date_short_400(Y, r0) ==
  Let([n1 \in {Add32(Mul32(4, r0), Lit(3))} |->
  Let([q1 \in {Div32(n1, 146096)} |->
  Let([r1 \in {Div32(Mod32(n1, 146096), 4)} |->
  Let([n2 \in {Add32(Mul32(4, r1), Lit(3))} |->
  Let([u2 \in {MulWide(2939745, n2)} |->
  Let([q2 \in {Lit(u2[1] \div p16)} |->
  Let([r2 \in {Div32(Div32(U32(u2), 2939745), 4)} |->
  Let([n3 \in {Add32(Mul32(2141, r2), Lit(197913))} |->
  Let([q3 \in {Lit(n3[1])} |->
  Let([r3 \in {Lit(n3[2] \div 2141)} |->
  Let([y0 \in {Add32(Mul32(100, q1), q2)} |->
  Let([j \in {~Less(uint32_t, r2, Lit(306))} |->
  Let([y1 \in {Add32(y0, Lit(IF j THEN 1 ELSE 0))} |->
  Let([m1 \in {IF j THEN Sub32(q3, Lit(12)) ELSE q3} |->
  Let([d1 \in {Add32(r3, Lit(1))} |->
  Date(Cast(Y, y1), m1[2] % 256, d1[2] % 256)])])])])])])])])])])])])])])])

\* A mutation of ugregorian_to_date: the day is counted from 0.
ugregorian_to_date_day_0(Y, r0) ==
  Let([n1 \in {Add32(Mul32(4, r0), Lit(3))} |->
  Let([q1 \in {Div32(n1, 146097)} |->
  Let([r1 \in {Div32(Mod32(n1, 146097), 4)} |->
  Let([n2 \in {Add32(Mul32(4, r1), Lit(3))} |->
  Let([u2 \in {MulWide(2939745, n2)} |->
  Let([q2 \in {Lit(u2[1] \div p16)} |->
  Let([r2 \in {Div32(Div32(U32(u2), 2939745), 4)} |->
  Let([n3 \in {Add32(Mul32(2141, r2), Lit(197913))} |->
  Let([q3 \in {Lit(n3[1])} |->
  Let([r3 \in {Lit(n3[2] \div 2141)} |->
  Let([y0 \in {Add32(Mul32(100, q1), q2)} |->
  Let([j \in {~Less(uint32_t, r2, Lit(306))} |->
  Let([y1 \in {Add32(y0, Lit(IF j THEN 1 ELSE 0))} |->
  Let([m1 \in {IF j THEN Sub32(q3, Lit(12)) ELSE q3} |->
  Let([d1 \in {Add32(r3, Lit(0))} |->
  Date(Cast(Y, y1), m1[2] % 256, d1[2] % 256)])])])])])])])])])])])])])])])

ugregorian_to_date(Y, r0) ==
  Let([n1 \in {Add32(Mul32(4, r0), Lit(3))} |->
  Let([q1 \in {Div32(n1, 146097)} |->
  Let([r1 \in {Div32(Mod32(n1, 146097), 4)} |->
  Let([n2 \in {Add32(Mul32(4, r1), Lit(3))} |->
  Let([u2 \in {MulWide(2939745, n2)} |->
  Let([q2 \in {Lit(u2[1] \div p16)} |->
  Let([r2 \in {Div32(Div32(U32(u2), 2939745), 4)} |->
  Let([n3 \in {Add32(Mul32(2141, r2), Lit(197913))} |->
  Let([q3 \in {Lit(n3[1])} |->
  Let([r3 \in {Lit(n3[2] \div 2141)} |->
  Let([y0 \in {Add32(Mul32(100, q1), q2)} |->
  Let([j \in {~Less(uint32_t, r2, Lit(306))} |->
  Let([y1 \in {Add32(y0, Lit(IF j THEN 1 ELSE 0))} |->
  Let([m1 \in {IF j THEN Sub32(q3, Lit(12)) ELSE q3} |->
  Let([d1 \in {Add32(r3, Lit(1))} |->
  Date(Cast(Y, y1), m1[2] % 256, d1[2] % 256)])])])])])])])])])])])])])])])

ugregorian_date_min == ugregorian_epoch

\* A mutation of ugregorian_date_max: the limit is the end of January.
ugregorian_date_max_january(Y) ==
  Let([y \in {Div32(MaxOf(uint32_t), 1461)} |->
  Let([y_plus_1 \in {Add32(y, Lit(1))} |->
  IF ~Less(uint32_t, y, Extend(Y, MaxOf(Y))) THEN max_date(Y)
  ELSE Date(Cast(Y, y_plus_1), 1, 31)])])

ugregorian_date_max(Y) ==
  Let([y \in {Div32(MaxOf(uint32_t), 1461)} |->
  Let([y_plus_1 \in {Add32(y, Lit(1))} |->
  IF ~Less(uint32_t, y, Extend(Y, MaxOf(Y))) THEN max_date(Y)
  ELSE Date(Cast(Y, y_plus_1), 2,
            28 + (IF is_leap_year(uint32_t, y_plus_1) THEN 1 ELSE 0))])])

ugregorian_rata_die_min == <<0, 0>>

\* A mutation of ugregorian_rata_die_max: the limit is one day short.
ugregorian_rata_die_max_short(Y) ==
  Let([n \in {Sub32(Div32(Sub32(MaxOf(uint32_t), Lit(3)), 4), Lit(1))} |->
  Let([u \in {ugregorian_to_date(uint32_t, n)} |->
  Let([v \in {Date(Extend(Y, MaxOf(Y)), 12, 31)} |->
  IF DateLessEq(uint32_t, u, v) THEN n
  ELSE ugregorian_to_rata_die(uint32_t, v)])])])

\* A mutation of ugregorian_rata_die_max: the limit is not refined against
\* max<year_t>.
ugregorian_rata_die_max_unrefined(Y) ==
  Div32(Sub32(MaxOf(uint32_t), Lit(3)), 4)

\* The promoted engine pugregorian_t = ugregorian_t<rata_die_t, rata_die_t>.
ugregorian_rata_die_max(Y) ==
  Let([n \in {Div32(Sub32(MaxOf(uint32_t), Lit(3)), 4)} |->
  Let([u \in {ugregorian_to_date(uint32_t, n)} |->
  Let([v \in {Date(Extend(Y, MaxOf(Y)), 12, 31)} |->
  IF DateLessEq(uint32_t, u, v) THEN n
  ELSE ugregorian_to_rata_die(uint32_t, v)])])])

\* std::max and std::min on objects of type T.
MaxT(T, a, b) ==
  Let([x \in {a} |-> Let([y \in {b} |-> IF Less(T, x, y) THEN y ELSE x])])

MinT(T, a, b) ==
  Let([x \in {a} |-> Let([y \in {b} |-> IF Less(T, y, x) THEN y ELSE x])])

\* The round trip limits, from the limits they are initialised with.
ugregorian_round_rata_die_min(Y, rata_die_min, date_min) ==
  MaxT(uint32_t, rata_die_min, ugregorian_to_rata_die(Y, date_min))

\* A mutation of ugregorian_round_rata_die_max: the limit is one day short.
ugregorian_round_rata_die_max_short(Y, rata_die_max, date_max) ==
  Sub32(MinT(uint32_t, rata_die_max, ugregorian_to_rata_die(Y, date_max)),
        Lit(1))

ugregorian_round_rata_die_max(Y, rata_die_max, date_max) ==
  MinT(uint32_t, rata_die_max, ugregorian_to_rata_die(Y, date_max))

\* The instantiated engine with its static members, in declaration order.
ugregorian_t(Y) ==
  Let([date_min \in {ugregorian_date_min} |->
  Let([date_max \in {ugregorian_date_max(Y)} |->
  Let([rata_die_min \in {ugregorian_rata_die_min} |->
  Let([rata_die_max \in {ugregorian_rata_die_max(Y)} |->
  Let([round_rata_die_min \in {ugregorian_round_rata_die_min(Y, rata_die_min, date_min)} |->
  Let([round_rata_die_max \in {ugregorian_round_rata_die_max(Y, rata_die_max, date_max)} |->
  [kind               |-> "ugregorian_t",
   Y                  |-> Y,
   R                  |-> uint32_t,
   epoch              |-> ugregorian_epoch,
   date_min           |-> date_min,
   date_max           |-> date_max,
   rata_die_min       |-> rata_die_min,
   rata_die_max       |-> rata_die_max,
   round_rata_die_min |-> round_rata_die_min,
   round_rata_die_max |-> round_rata_die_max,
   round_date_min     |-> ugregorian_to_date(Y, round_rata_die_min),
   round_date_max     |-> ugregorian_to_date(Y, round_rata_die_max)]])])])])])])

---------------------------------------------------------------------------
(* gregorian_t<Y, R, e>, R = std::int32_t in every instantiation.  The      *)
(* helper engine ugregorian_t<std::uint32_t, std::uint32_t> is the         *)
(* parameter ug of the definitions that read its static members.           *)

\* A mutation of unix_epoch: the epoch is one day late.
unix_epoch_january_2(Y) == Date(Of(Y, 1970), 1, 2)

\* unix_epoch<Y>
unix_epoch(Y) == Date(Of(Y, 1970), 1, 1)

\* Operators / and % of C++ on int operands: truncated division.
TruncDiv(a, b) == IF a >= 0 THEN a \div b ELSE -((-a) \div b)

TruncRem(a, b) == a - b * TruncDiv(a, b)

\* A mutation of gregorian_offset: the 146097 days of the 400 years added to
\* the year of the epoch are not taken back.
gregorian_offset_400_late(Y, ug, epoch) ==
  Let([q \in {TruncDiv(Val(Y, epoch.year), 400)} |->
  Let([r \in {TruncRem(Val(Y, epoch.year), 400)} |->
  Let([u \in {Date(Lit(r + 400), epoch.month, epoch.day)} |->
  Let([n \in {ugregorian_to_rata_die(uint32_t, u)} |->
  Let([t \in {Div32(Div32(ug.rata_die_max, 146097), 2)} |->
  Let([z2 \in {Mul32(400, Sub32(Lit(q), t))} |->
  Let([n2_e3 \in {Add32(Mul32(146097, t), n)} |->
  [year |-> z2, rata_die |-> n2_e3]])])])])])])])

\* A mutation of gregorian_offset: t is not halved, the epoch is mapped to
\* the end of the range of ugregorian_t.
gregorian_offset_end(Y, ug, epoch) ==
  Let([q \in {TruncDiv(Val(Y, epoch.year), 400)} |->
  Let([r \in {TruncRem(Val(Y, epoch.year), 400)} |->
  Let([u \in {Date(Lit(r + 400), epoch.month, epoch.day)} |->
  Let([n \in {Sub32(ugregorian_to_rata_die(uint32_t, u), Lit(146097))} |->
  Let([t \in {Div32(ug.rata_die_max, 146097)} |->
  Let([z2 \in {Mul32(400, Sub32(Lit(q), t))} |->
  Let([n2_e3 \in {Add32(Mul32(146097, t), n)} |->
  [year |-> z2, rata_die |-> n2_e3]])])])])])])])

\* A mutation of gregorian_offset: the epoch is mapped to the start of the
\* range of ugregorian_t, not to its middle.
gregorian_offset_uncentred(Y, ug, epoch) ==
  Let([q \in {TruncDiv(Val(Y, epoch.year), 400)} |->
  Let([r \in {TruncRem(Val(Y, epoch.year), 400)} |->
  Let([u \in {Date(Lit(r + 400), epoch.month, epoch.day)} |->
  Let([n \in {Sub32(ugregorian_to_rata_die(uint32_t, u), Lit(146097))} |->
  Let([t \in {Lit(0)} |->
  Let([z2 \in {Mul32(400, Sub32(Lit(q), t))} |->
  Let([n2_e3 \in {Add32(Mul32(146097, t), n)} |->
  [year |-> z2, rata_die |-> n2_e3]])])])])])])])

gregorian_offset(Y, ug, epoch) ==
  Let([q \in {TruncDiv(Val(Y, epoch.year), 400)} |->
  Let([r \in {TruncRem(Val(Y, epoch.year), 400)} |->
  Let([u \in {Date(Lit(r + 400), epoch.month, epoch.day)} |->
  Let([n \in {Sub32(ugregorian_to_rata_die(uint32_t, u), Lit(146097))} |->
  Let([t \in {Div32(Div32(ug.rata_die_max, 146097), 2)} |->
  Let([z2 \in {Mul32(400, Sub32(Lit(q), t))} |->
  Let([n2_e3 \in {Add32(Mul32(146097, t), n)} |->
  [year |-> z2, rata_die |-> n2_e3]])])])])])])])

\* A mutation of to_urata_die: the offset is subtracted.
to_urata_die_subtracted(offset, n) == Sub32(n, offset.rata_die)

to_urata_die(offset, n) == Add32(n, offset.rata_die)

from_urata_die(offset, n) == Sub32(n, offset.rata_die)

\* A mutation of to_udate: the year is zero extended to 32 bits.
to_udate_zero_extended(Y, offset, u) ==
  Date(Sub32(u.year, offset.year), u.month, u.day)

to_udate(Y, offset, u) ==
  Date(Sub32(Extend(Y, u.year), offset.year), u.month, u.day)

from_udate(Y, offset, u) ==
  Date(Cast(Y, Add32(u.year, offset.year)), u.month, u.day)

\* A mutation of gregorian_to_rata_die: the translated date is held in a
\* date_t, its year truncated to year_t, not in a udate_t.
gregorian_to_rata_die_date_t(Y, offset, u) ==
  Let([x \in {to_udate(Y, offset, u)} |->
  from_urata_die(offset,
    ugregorian_to_rata_die(Y, Date(Cast(Y, x.year), x.month, x.day)))])

gregorian_to_rata_die(Y, offset, u) ==
  from_urata_die(offset, ugregorian_to_rata_die(uint32_t, to_udate(Y, offset, u)))

gregorian_to_date(Y, offset, n) ==
  from_udate(Y, offset, ugregorian_to_date(uint32_t, to_urata_die(offset, n)))

gregorian_date_min(Y, ug, offset) ==
  IF DateLess(uint32_t, ug.date_max, to_udate(Y, offset, min_date(Y)))
  THEN from_udate(Y, offset, ug.date_min)
  ELSE min_date(Y)

gregorian_date_max(Y, ug, offset) ==
  IF DateLess(uint32_t, ug.date_max, to_udate(Y, offset, max_date(Y)))
  THEN from_udate(Y, offset, ug.date_max)
  ELSE max_date(Y)

gregorian_rata_die_min(Y, ug, offset) ==
  Let([last \in {ugregorian_to_date(uint32_t, ug.rata_die_max)} |->
  IF DateLess(uint32_t, last, to_udate(Y, offset, min_date(Y)))
  THEN from_urata_die(offset, ug.rata_die_min)
  ELSE gregorian_to_rata_die(Y, offset, min_date(Y))])

gregorian_rata_die_max(Y, ug, offset) ==
  Let([last \in {ugregorian_to_date(uint32_t, ug.rata_die_max)} |->
  IF DateLess(uint32_t, last, to_udate(Y, offset, max_date(Y)))
  THEN from_urata_die(offset, ug.rata_die_max)
  ELSE gregorian_to_rata_die(Y, offset, max_date(Y))])

gregorian_round_rata_die_min(Y, offset, rata_die_min, date_min) ==
  MaxT(int32_t, rata_die_min, gregorian_to_rata_die(Y, offset, date_min))

\* A mutation of gregorian_round_rata_die_max: std::max in place of
\* std::min.
gregorian_round_rata_die_max_larger(Y, offset, rata_die_max, date_max) ==
  MaxT(int32_t, rata_die_max, gregorian_to_rata_die(Y, offset, date_max))

gregorian_round_rata_die_max(Y, offset, rata_die_max, date_max) ==
  MinT(int32_t, rata_die_max, gregorian_to_rata_die(Y, offset, date_max))

\* The instantiated engine with its static members, in declaration order.
gregorian_t(Y, e) ==
  Let([ug \in {ugregorian_t(uint32_t)} |->
  Let([offset \in {gregorian_offset(Y, ug, e)} |->
  Let([date_min \in {gregorian_date_min(Y, ug, offset)} |->
  Let([date_max \in {gregorian_date_max(Y, ug, offset)} |->
  Let([rata_die_min \in {gregorian_rata_die_min(Y, ug, offset)} |->
  Let([rata_die_max \in {gregorian_rata_die_max(Y, ug, offset)} |->
  Let([round_rata_die_min \in {gregorian_round_rata_die_min(Y, offset, rata_die_min, date_min)} |->
  Let([round_rata_die_max \in {gregorian_round_rata_die_max(Y, offset, rata_die_max, date_max)} |->
  [kind               |-> "gregorian_t",
   Y                  |-> Y,
   R                  |-> int32_t,
   epoch              |-> e,
   ug                 |-> ug,
   offset             |-> offset,
   date_min           |-> date_min,
   date_max           |-> date_max,
   rata_die_min       |-> rata_die_min,
   rata_die_max       |-> rata_die_max,
   round_rata_die_min |-> round_rata_die_min,
   round_rata_die_max |-> round_rata_die_max,
   round_date_min     |-> gregorian_to_date(Y, offset, round_rata_die_min),
   round_date_max     |-> gregorian_to_date(Y, offset, round_rata_die_max)]])])])])])])])])

\* A::to_rata_die and A::to_date of an instantiated engine A.
to_rata_die(A, u) ==
  IF A.kind = "ugregorian_t" THEN ugregorian_to_rata_die(A.Y, u)
  ELSE gregorian_to_rata_die(A.Y, A.offset, u)

to_date(A, n) ==
  IF A.kind = "ugregorian_t" THEN ugregorian_to_date(A.Y, n)
  ELSE gregorian_to_date(A.Y, A.offset, n)

---------------------------------------------------------------------------
(* ugregorian_t of date.hpp, with std::uint32_t rata dies                  *)

\* quotient_remainder_1461(std::uint32_t): a = 2^31 and
\* b = a / 1461 + 1 = 1469873; p = b * n in 64 bits, q = p / a and
\* r = (p % a) / b.
date_hpp_quotient_remainder_1461(n) ==
  Let([p \in {MulWide(1469873, n)} |->
  [q |-> Lit(p[1] \div 32768),
   r |-> Div32(<<p[1] % 32768, p[2]>>, 1469873)]])

date_hpp_to_rata_die(Y, x) ==
  Let([y \in {Extend(Y, x.year)} |->
  Let([j \in {x.month < 3} |->
  Let([d_ \in {Sub32(Lit(x.day), Lit(1))} |->
  Let([m_ \in {IF j THEN Add32(Lit(x.month), Lit(12)) ELSE Lit(x.month)} |->
  Let([y_ \in {Sub32(y, Lit(IF j THEN 1 ELSE 0))} |->
  Let([c \in {Div32(y_, 100)} |->
  Add32(Add32(Add32(Sub32(Div32(Mul32(1461, y_), 4), c), Div32(c, 4)),
              date_hpp_month_count(m_)),
        d_)])])])])])])

\* A mutation of date_hpp_to_date: January starts at r2 > 306.
date_hpp_to_date_late_january(Y, n) ==
  Let([s1 \in {Add32(Mul32(4, n), Lit(3))} |->
  Let([c1 \in {Div32(s1, 146097)} |->
  Let([r1 \in {Mod32(s1, 146097)} |->
  Let([s2 \in {<<r1[1], BitOr(r1[2], 3)>>} |->
  Let([cx \in {date_hpp_quotient_remainder_1461(s2)} |->
  Let([r2 \in {Div32(cx.r, 4)} |->
  Let([s3 \in {Add32(Mul32(2141, r2), Lit(197657))} |->
  Let([c3 \in {Lit(s3[1])} |->
  Let([r3 \in {Lit(s3[2] \div 2141)} |->
  Let([y_ \in {Add32(Mul32(100, c1), cx.q)} |->
  Let([j \in {Less(uint32_t, Lit(306), r2)} |->
  Let([y \in {Add32(y_, Lit(IF j THEN 1 ELSE 0))} |->
  Let([m \in {IF j THEN Sub32(c3, Lit(12)) ELSE c3} |->
  Let([d \in {Add32(r3, Lit(1))} |->
  Date(Cast(Y, y), m[2] % 256, d[2] % 256)])])])])])])])])])])])])])])

date_hpp_to_date(Y, n) ==
  Let([s1 \in {Add32(Mul32(4, n), Lit(3))} |->
  Let([c1 \in {Div32(s1, 146097)} |->
  Let([r1 \in {Mod32(s1, 146097)} |->
  Let([s2 \in {<<r1[1], BitOr(r1[2], 3)>>} |->
  Let([cx \in {date_hpp_quotient_remainder_1461(s2)} |->
  Let([r2 \in {Div32(cx.r, 4)} |->
  Let([s3 \in {Add32(Mul32(2141, r2), Lit(197657))} |->
  Let([c3 \in {Lit(s3[1])} |->
  Let([r3 \in {Lit(s3[2] \div 2141)} |->
  Let([y_ \in {Add32(Mul32(100, c1), cx.q)} |->
  Let([j \in {Less(uint32_t, Lit(305), r2)} |->
  Let([y \in {Add32(y_, Lit(IF j THEN 1 ELSE 0))} |->
  Let([m \in {IF j THEN Sub32(c3, Lit(12)) ELSE c3} |->
  Let([d \in {Add32(r3, Lit(1))} |->
  Date(Cast(Y, y), m[2] % 256, d[2] % 256)])])])])])])])])])])])])])])

date_hpp_date_max(Y) ==
  Let([y \in {Div32(MaxOf(uint32_t), 1461)} |->
  Let([y_plus_1 \in {Add32(y, Lit(1))} |->
  IF ~Less(uint32_t, y, Extend(Y, MaxOf(Y))) THEN max_date(Y)
  ELSE Date(Cast(Y, y_plus_1), 2,
            28 + (IF date_hpp_is_leap_year(uint32_t, y_plus_1)
                  THEN 1 ELSE 0))])])

\* rata_die_max of date.hpp, through the promoted engine
\* pugregorian_t = ugregorian_t<rata_die_t, rata_die_t> of date.hpp.
date_hpp_rata_die_max(Y) ==
  Let([n \in {Div32(Sub32(MaxOf(uint32_t), Lit(3)), 4)} |->
  Let([x1 \in {date_hpp_to_date(uint32_t, n)} |->
  Let([x2 \in {Date(Extend(Y, MaxOf(Y)), 12, 31)} |->
  IF DateLessEq(uint32_t, x1, x2) THEN n
  ELSE date_hpp_to_rata_die(uint32_t, x2)])])])

---------------------------------------------------------------------------
(* neri_schneider, the standalone algorithms of the tests, on std::int16_t *)
(* years and std::int32_t rata dies                                        *)

\* z2 and r2_e3 of neri_schneider::to_rata_die and neri_schneider::to_date,
\* as std::uint32_t.
neri_schneider_z2 == Lit(-1468000)

neri_schneider_r2_e3 == Lit(536895458)

\* A mutation of neri_schneider_to_rata_die: r2_e3 is one day larger.
neri_schneider_to_rata_die_day_early(u2) ==
  Let([y1 \in {Sub32(Extend(int16_t, u2.year), neri_schneider_z2)} |->
  Let([j \in {u2.month < 3} |->
  Let([y0 \in {Sub32(y1, Lit(IF j THEN 1 ELSE 0))} |->
  Let([m0 \in {IF j THEN Add32(Lit(u2.month), Lit(12)) ELSE Lit(u2.month)} |->
  Let([d0 \in {Sub32(Lit(u2.day), Lit(1))} |->
  Let([q1 \in {Div32(y0, 100)} |->
  Let([yc \in {Add32(Sub32(Div32(Mul32(1461, y0), 4), q1), Div32(q1, 4))} |->
  Let([mc \in {Div32(Sub32(Mul32(979, m0), Lit(2919)), 32)} |->
  Let([dc \in {d0} |->
  Sub32(Add32(Add32(yc, mc), dc), Lit(536895459))])])])])])])])])])

neri_schneider_to_rata_die(u2) ==
  Let([y1 \in {Sub32(Extend(int16_t, u2.year), neri_schneider_z2)} |->
  Let([j \in {u2.month < 3} |->
  Let([y0 \in {Sub32(y1, Lit(IF j THEN 1 ELSE 0))} |->
  Let([m0 \in {IF j THEN Add32(Lit(u2.month), Lit(12)) ELSE Lit(u2.month)} |->
  Let([d0 \in {Sub32(Lit(u2.day), Lit(1))} |->
  Let([q1 \in {Div32(y0, 100)} |->
  Let([yc \in {Add32(Sub32(Div32(Mul32(1461, y0), 4), q1), Div32(q1, 4))} |->
  Let([mc \in {Div32(Sub32(Mul32(979, m0), Lit(2919)), 32)} |->
  Let([dc \in {d0} |->
  Sub32(Add32(Add32(yc, mc), dc), neri_schneider_r2_e3)])])])])])])])])])

neri_schneider_to_date(r) ==
  Let([r0 \in {Add32(r, neri_schneider_r2_e3)} |->
  Let([n1 \in {Add32(Mul32(4, r0), Lit(3))} |->
  Let([q1 \in {Div32(n1, 146097)} |->
  Let([r1 \in {Div32(Mod32(n1, 146097), 4)} |->
  Let([n2 \in {Add32(Mul32(4, r1), Lit(3))} |->
  Let([u2 \in {MulWide(2939745, n2)} |->
  Let([q2 \in {Lit(u2[1] \div p16)} |->
  Let([r2 \in {Div32(Div32(U32(u2), 2939745), 4)} |->
  Let([n3 \in {Add32(Mul32(2141, r2), Lit(197913))} |->
  Let([q3 \in {Lit(n3[1])} |->
  Let([r3 \in {Lit(n3[2] \div 2141)} |->
  Let([y0 \in {Add32(Mul32(100, q1), q2)} |->
  Let([j \in {~Less(uint32_t, r2, Lit(306))} |->
  Let([y1 \in {Add32(y0, Lit(IF j THEN 1 ELSE 0))} |->
  Let([m1 \in {IF j THEN Sub32(q3, Lit(12)) ELSE q3} |->
  Let([d1 \in {Add32(r3, Lit(1))} |->
  Date(Cast(int16_t, Add32(y1, neri_schneider_z2)),
       m1[2] % 256, d1[2] % 256)])])])])])])])])])])])])])])])])

\* The static members of neri_schneider.
neri_schneider ==
  [epoch              |-> unix_epoch(int16_t),
   date_min           |-> min_date(int16_t),
   date_max           |-> max_date(int16_t),
   rata_die_min       |-> Lit(-12687794),
   rata_die_max       |-> Lit(11248737),
   round_date_min     |-> min_date(int16_t),
   round_date_max     |-> max_date(int16_t),
   round_rata_die_min |-> Lit(-12687794),
   round_rata_die_max |-> Lit(11248737)]

\* The engines of the typed test suite calendar_tests.
implementations ==
  { ugregorian_t(uint16_t),
    gregorian_t(int16_t, unix_epoch(int16_t)),
    gregorian_t(int16_t, Date(Of(int16_t, 0), 3, 1)),
    gregorian_t(int16_t, Date(Of(int16_t, 0), 1, 1)),
    gregorian_t(int16_t, Date(Of(int16_t, -1), 1, 1)),
    gregorian_t(int16_t, Date(Of(int16_t, -400), 1, 1)),
    gregorian_t(int16_t, Date(Of(int16_t, -1970), 1, 1)),
    gregorian_t(int16_t, Date(Of(int16_t, -32768), 1, 1)),
    ugregorian_t(uint32_t),
    gregorian_t(int32_t, unix_epoch(int32_t)),
    gregorian_t(int32_t, Date(Of(int32_t, 1912), 6, 23)),
    gregorian_t(int32_t, Date(Of(int32_t, -1912), 6, 23)) }

\* Further instantiations of gregorian_t: an epoch on a leap day and the
\* last date of the 16-bit years.
configurations ==
  implementations
  \cup { gregorian_t(int16_t, Date(Of(int16_t, 2000), 2, 29)),
         gregorian_t(int16_t, Date(Of(int16_t, 32767), 12, 31)) }

\* A date_t<std::int16_t> as the date_t<std::int32_t> of the same year.
Widen(u) == Date(Extend(int16_t, u.year), u.month, u.day)

---------------------------------------------------------------------------
(* Helpers of the tests                                                    *)

\* ++x and --x on an object of type T.
Inc(T, x) == Cast(T, Add32(Extend(T, x), Lit(1)))

Dec(T, x) == Cast(T, Sub32(Extend(T, x), Lit(1)))

\* advance(date) and next(date): the date advanced by one day.
advance(T, date) ==
  IF date.day # last_day_of_month(T, date.year, date.month)
  THEN Date(date.year, date.month, (date.day + 1) % 256)
  ELSE IF date.month # 12
       THEN Date(date.year, (date.month + 1) % 256, 1)
       ELSE Date(Inc(T, date.year), 1, 1)

next(T, date) == advance(T, date)

\* regress(date) and previous(date): the date regressed by one day.
regress(T, date) ==
  IF date.day # 1
  THEN Date(date.year, date.month, (date.day + 255) % 256)
  ELSE Let([month \in {IF date.month # 1 THEN date.month - 1 ELSE 12} |->
       Let([year \in {IF date.month # 1 THEN date.year ELSE Dec(T, date.year)} |->
       Date(year, month, last_day_of_month(T, year, month))])])

previous(T, date) == regress(T, date)

---------------------------------------------------------------------------
(* The inputs the checks draw from                                         *)

\* The days from the epoch of the first and of the last date of
\* std::chrono::year_month_day, as standard_compliance_tests has them.
chrono_days_min == -12687428

chrono_days_max == 11248737

\* Number of days a loop of the tests walks away from where it starts.
Window == 3

\* Years whose February and December ends the loops start at: leap and
\* common years, centuries, multiples of 400, both signs.
AnchorYears ==
  {-32768, -2000, -1900, -400, -100, -4, -1, 0, 1, 4, 100, 400, 1600, 1900,
   1970, 2000, 2023, 2024, 32767, 65535, 1468000, 2939000}

AnchorDays == {<<2, 27>>, <<12, 30>>}

\* Whether the integer n is a value of type T.
Holds(T, n) ==
  IF T.bits = 16
  THEN (IF T.signed THEN n >= -32768 /\ n <= 32767 ELSE n >= 0 /\ n <= 65535)
  ELSE T.signed \/ n >= 0

Between(T, lo, x, hi) == ~Less(T, x, lo) /\ ~Less(T, hi, x)

DateBetween(Y, lo, u, hi) == DateLessEq(Y, lo, u) /\ DateLessEq(Y, u, hi)

\* The dates a to_rata_die loop starts at, all inside [date_min, date_max].
DateAnchors(A) ==
  {A.epoch, A.date_min, A.date_max, A.round_date_min, A.round_date_max}
  \cup {u \in {Date(Of(A.Y, y[1]), y[2][1], y[2][2]) :
                 y \in {z \in AnchorYears \X AnchorDays : Holds(A.Y, z[1])}} :
          DateBetween(A.Y, A.date_min, u, A.date_max)}

\* The rata dies a to_date loop starts at, all inside
\* [rata_die_min, rata_die_max].
RataDieAnchors(A) ==
  {Lit(0), A.rata_die_min, A.rata_die_max, A.round_rata_die_min,
   A.round_rata_die_max}
  \cup {n \in {to_rata_die(A, u) : u \in DateAnchors(A)} :
          Between(A.R, A.rata_die_min, n, A.rata_die_max)}

\* The years the primitives are called with: every year at most YearSpan
\* away from 0 and the years at most YearWindow away from the limits of the
\* types and of the domain of the mcomp algorithm.
YearSpan == 401

YearWindow == 3

mcomp_min == -mcomp_offset

mcomp_max == mcomp_max_dividend - mcomp_offset

YearAnchors ==
  {mcomp_min, mcomp_min + 100, mcomp_min + 400, -1468000, -32768, 32767,
   65535, 1471800, 2939800, mcomp_max - 199, mcomp_max - 99, mcomp_max + 1}

Years ==
  ((-YearSpan) .. YearSpan)
  \cup UNION {(y - YearWindow) .. (y + YearWindow) : y \in YearAnchors}

YearTypes == {int16_t, uint16_t, int32_t, uint32_t}

---------------------------------------------------------------------------
(* The state machine of the engines: an engine is configured once, then    *)
(* the loops of the tests call its conversions, one call after the other.  *)

VARIABLES
  A,             \* the configured engine, with its static members
  test,          \* the test that runs: "none", "to_date", "to_rata_die", ...
  op,            \* the last step: "configured", "start", "forward", ...
  k,             \* days walked from the start of the loop
  rata_die,      \* the rata die cursor of the loop
  date,          \* the date cursor of the loop
  out_date,      \* the date last returned by A::to_date
  out_rata_die,  \* the rata die last returned by A::to_rata_die
  T,             \* the type of the year a primitive is called with
  year,          \* the year a primitive is called with
  month,         \* the month last_day_of_month is called with
  called,        \* the primitive last called, "none" before the call
  ret,           \* what it returned
  arg            \* the number a formula of the fast tests is evaluated at

engine_vars == <<A, test, op, k, rata_die, date, out_date, out_rata_die>>

primitive_vars == <<T, year, month, called, ret, arg>>

vars == <<engine_vars, primitive_vars>>

\* No primitive is under test.
NoPrimitive ==
  /\ T = int32_t
  /\ year = Lit(0)
  /\ month = 1
  /\ called = "none"
  /\ ret = FALSE
  /\ arg = Lit(0)

Init ==
  /\ A \in configurations
  /\ test = "none"
  /\ op = "configured"
  /\ k = 0
  /\ rata_die = Lit(0)
  /\ date = A.epoch
  /\ out_date = A.epoch
  /\ out_rata_die = Lit(0)
  /\ NoPrimitive

\* A mutation of ToDateStep: within a loop to_date returns what it returned
\* to the previous call.
ToDateStepStale(name, n, u, step, kk) ==
  \E d \in {IF test = name THEN out_date ELSE to_date(A, n)} :
      /\ test' = name
      /\ op' = step
      /\ k' = kk
      /\ rata_die' = n
      /\ date' = u
      /\ out_date' = d
      /\ out_rata_die' = to_rata_die(A, d)
      /\ UNCHANGED <<A, primitive_vars>>

\* The body of the loops over rata dies (round_trip, to_date_forward,
\* to_date_backward) at the rata die n, the date cursor being u.
ToDateStep(name, n, u, step, kk) ==
  \E d \in {to_date(A, n)} :
      /\ test' = name
      /\ op' = step
      /\ k' = kk
      /\ rata_die' = n
      /\ date' = u
      /\ out_date' = d
      /\ out_rata_die' = to_rata_die(A, d)
      /\ UNCHANGED <<A, primitive_vars>>

\* The body of the loops over dates (to_rata_die_forward,
\* to_rata_die_backward) at the date u, the rata die cursor being n.
ToRataDieStep(u, n, step, kk) ==
  \E r \in {to_rata_die(A, u)} :
      /\ test' = "to_rata_die"
      /\ op' = step
      /\ k' = kk
      /\ date' = u
      /\ rata_die' = n
      /\ out_rata_die' = r
      /\ out_date' = to_date(A, r)
      /\ UNCHANGED <<A, primitive_vars>>

\* A loop over rata dies starts: at 0 with the date cursor on the epoch, as
\* the tests do, or further on, where the cursor is the date of that day.
StartToDate ==
  /\ test = "none"
  /\ \E n \in RataDieAnchors(A) :
       ToDateStep("to_date", n,
                  IF n = Lit(0) THEN A.epoch ELSE to_date(A, n), "start", 0)

StartToRataDie ==
  /\ test = "none"
  /\ \E u \in DateAnchors(A) :
       ToRataDieStep(u, IF u = A.epoch THEN Lit(0) ELSE to_rata_die(A, u),
                     "start", 0)

\* to_date_forward: A::to_date(++rata_die) against advance(date).
ToDateForward ==
  /\ test = "to_date"
  /\ k < Window
  /\ Less(A.R, rata_die, A.rata_die_max)
  /\ ToDateStep("to_date", Inc(A.R, rata_die), advance(A.Y, date),
                "forward", k + 1)

\* to_date_backward: A::to_date(--rata_die) against regress(date).
ToDateBackward ==
  /\ test = "to_date"
  /\ k > -Window
  /\ Less(A.R, A.rata_die_min, rata_die)
  /\ ToDateStep("to_date", Dec(A.R, rata_die), regress(A.Y, date),
                "backward", k - 1)

\* to_rata_die_forward: A::to_rata_die(advance(date)) against ++rata_die.
ToRataDieForward ==
  /\ test = "to_rata_die"
  /\ k < Window
  /\ DateLess(A.Y, date, A.date_max)
  /\ ToRataDieStep(advance(A.Y, date), Inc(A.R, rata_die), "forward", k + 1)

\* to_rata_die_backward: A::to_rata_die(regress(date)) against --rata_die.
ToRataDieBackward ==
  /\ test = "to_rata_die"
  /\ k > -Window
  /\ DateLess(A.Y, A.date_min, date)
  /\ ToRataDieStep(regress(A.Y, date), Dec(A.R, rata_die), "backward", k - 1)

\* to_date_limits, the upper limit: unless rata_die_max == max<rata_die_t> or
\* last == max<date_t>, A::to_date(A::rata_die_max + 1) against next(last).
ToDateLimitsMax ==
  /\ test = "none"
  /\ \E last \in {to_date(A, A.rata_die_max)} :
       /\ A.rata_die_max # MaxOf(A.R)
       /\ last # max_date(A.Y)
       /\ ToDateStep("to_date_limits", Inc(A.R, A.rata_die_max),
                     next(A.Y, last), "max", 0)

\* to_date_limits, the lower limit: unless rata_die_min == min<rata_die_t> or
\* first == min<date_t>, A::to_date(A::rata_die_min - 1) against
\* previous(first).
ToDateLimitsMin ==
  /\ test = "none"
  /\ \E first \in {to_date(A, A.rata_die_min)} :
       /\ A.rata_die_min # MinOf(A.R)
       /\ first # min_date(A.Y)
       /\ ToDateStep("to_date_limits", Dec(A.R, A.rata_die_min),
                     previous(A.Y, first), "min", 0)

\* The call A::to_rata_die(u) of to_rata_die_limits, against the rata die n.
ToRataDieLimitsStep(u, n, step) ==
  \E r \in {to_rata_die(A, u)} :
      /\ test' = "to_rata_die_limits"
      /\ op' = step
      /\ k' = 0
      /\ date' = u
      /\ rata_die' = n
      /\ out_rata_die' = r
      /\ out_date' = to_date(A, r)
      /\ UNCHANGED <<A, primitive_vars>>

\* to_rata_die_limits, the upper limit: unless date_max == max<date_t> or
\* last == max<rata_die_t>, A::to_rata_die(next(A::date_max)) against
\* last + 1.
ToRataDieLimitsMax ==
  /\ test = "none"
  /\ \E last \in {to_rata_die(A, A.date_max)} :
       /\ A.date_max # max_date(A.Y)
       /\ last # MaxOf(A.R)
       /\ ToRataDieLimitsStep(next(A.Y, A.date_max), Inc(A.R, last), "max")

\* to_rata_die_limits, the lower limit: unless date_min == min<date_t> or
\* first == min<rata_die_t>, A::to_rata_die(previous(A::date_min)) against
\* first - 1.
ToRataDieLimitsMin ==
  /\ test = "none"
  /\ \E first \in {to_rata_die(A, A.date_min)} :
       /\ A.date_min # min_date(A.Y)
       /\ first # MinOf(A.R)
       /\ ToRataDieLimitsStep(previous(A.Y, A.date_min), Dec(A.R, first),
                              "min")

\* The round trip A::to_rata_die(A::to_date(n)) of round_trip, called with
\* the rata die after round_rata_die_max, which the loop ends on.
RoundTripPastMax ==
  /\ test = "none"
  /\ A.round_rata_die_max # MaxOf(A.R)
  /\ \E n \in {Inc(A.R, A.round_rata_die_max)} :
       ToDateStep("round_trip_past", n, to_date(A, n), "max", 0)

\* The same round trip called with the rata die before round_rata_die_min.
RoundTripPastMin ==
  /\ test = "none"
  /\ A.round_rata_die_min # MinOf(A.R)
  /\ \E n \in {Dec(A.R, A.round_rata_die_min)} :
       ToDateStep("round_trip_past", n, to_date(A, n), "min", 0)

Next ==
  \/ StartToDate
  \/ StartToRataDie
  \/ ToDateForward
  \/ ToDateBackward
  \/ ToRataDieForward
  \/ ToRataDieBackward
  \/ ToDateLimitsMax
  \/ ToDateLimitsMin
  \/ ToRataDieLimitsMax
  \/ ToRataDieLimitsMin
  \/ RoundTripPastMax
  \/ RoundTripPastMin

Spec == Init /\ [][Next]_vars

---------------------------------------------------------------------------
(* The state machine of the primitives: a year of one of the year types is *)
(* drawn, then one primitive is called with it.                            *)

\* No engine is configured.
NoEngine ==
  /\ A = ugregorian_t(uint16_t)
  /\ test = "primitives"
  /\ op = "configured"
  /\ k = 0
  /\ rata_die = Lit(0)
  /\ date = ugregorian_epoch
  /\ out_date = ugregorian_epoch
  /\ out_rata_die = Lit(0)

InitPrimitives ==
  /\ NoEngine
  /\ T \in YearTypes
  /\ year \in {Of(T, y) : y \in {z \in Years : Holds(T, z)}}
  /\ month = 1
  /\ called = "none"
  /\ ret = FALSE
  /\ arg = Lit(0)

\* The call of a primitive returns value.
Return(name, m, value) ==
  /\ called' = name
  /\ month' = m
  /\ ret' = value
  /\ UNCHANGED <<engine_vars, T, year, arg>>

IsMultipleOf100 ==
  /\ called = "none"
  /\ Return("is_multiple_of_100", month, is_multiple_of_100(T, year))

IsLeapYear ==
  /\ called = "none"
  /\ Return("is_leap_year", month, is_leap_year(T, year))

DateHppIsLeapYear ==
  /\ called = "none"
  /\ Return("date.hpp is_leap_year", month, date_hpp_is_leap_year(T, year))

LastDayOfMonth ==
  /\ called = "none"
  /\ \E m \in 1 .. 12 :
       Return("last_day_of_month", m, last_day_of_month(T, year, m))

DateHppLastDayOfMonth ==
  /\ called = "none"
  /\ \E m \in 1 .. 12 :
       Return("date.hpp last_day_of_month", m,
              date_hpp_last_day_of_month(T, year, m))

NextPrimitives ==
  \/ IsMultipleOf100
  \/ IsLeapYear
  \/ DateHppIsLeapYear
  \/ LastDayOfMonth
  \/ DateHppLastDayOfMonth

SpecPrimitives == InitPrimitives /\ [][NextPrimitives]_vars

---------------------------------------------------------------------------
(* The state machine of the formulas: a number is drawn, then one of the   *)
(* formulas the conversions are built from is evaluated at it, next to the *)
(* formula it stands for.                                                  *)

\* The numbers the formulas are evaluated at: every number up to FastSpan
\* and the numbers at most FastWindow away from the limits of the formulas.
FastSpan == 800

FastWindow == 3

FastAnchors == {1461, 36524, 146097, 146099, 2939744, 28825529}

FastInputs ==
  (0 .. FastSpan)
  \cup UNION {(a - FastWindow) .. (a + FastWindow) : a \in FastAnchors}

InitFast ==
  /\ NoEngine
  /\ T = uint32_t
  /\ year = Lit(0)
  /\ month = 1
  /\ called = "none"
  /\ ret = FALSE
  /\ arg \in {Lit(i) : i \in FastInputs}

\* The formula called name is evaluated at arg and gives value.
Evaluate(name, value) ==
  /\ called' = name
  /\ ret' = value
  /\ UNCHANGED <<engine_vars, T, year, month, arg>>

\* The year count of ugregorian_t::to_rata_die next to that of
\* baum::to_rata_die, at the year arg and at the year after it, and
\* ugregorian_t::to_rata_die of March 1 of the year arg.
YearCount ==
  /\ called = "none"
  /\ Evaluate("year_count",
              [fast |-> ugregorian_year_count(arg),
               slow |-> baum_year_count(arg),
               fast_next |-> ugregorian_year_count(Add32(arg, Lit(1))),
               march_1 |-> ugregorian_to_rata_die(uint32_t, Date(arg, 3, 1))])

\* The month count of to_rata_die, as calendar.hpp and as date.hpp have it,
\* at the month arg.
MonthCount ==
  /\ called = "none"
  /\ Evaluate("month_count",
              [calendar_hpp |-> ugregorian_month_count(arg),
               date_hpp |-> date_hpp_month_count(arg)])

\* The body of the loop of fast/month_count_rounding_down at n = arg.
MonthCountRoundingDown ==
  /\ called = "none"
  /\ Evaluate("month_count_rounding_down",
              [month_count |-> month_count(arg),
               month_count_fast |-> ugregorian_month_count(arg)])

\* The body of the loop of fast/month_rounding_down at n = arg, and q3 and
\* r3 of ugregorian_t::to_date at r2 = arg.
MonthRoundingDown ==
  /\ called = "none"
  /\ Evaluate("month_rounding_down",
              [month |-> test_month(arg),
               month_fast |-> month_fast(arg),
               day |-> Sub32(arg, month_count(test_month(arg))),
               day_fast |-> day_fast(arg),
               to_date |-> ugregorian_month_day(arg)])

\* The body of the loop of fast/division_by_1461 at n = arg, and n2 of
\* ugregorian_t::to_date at r0 = arg.
DivisionBy1461 ==
  /\ called = "none"
  /\ Evaluate("division_by_1461",
              [fast |-> division_by_1461(arg),
               q |-> Div32(arg, 1461),
               r |-> Mod32(arg, 1461),
               n2 |-> ugregorian_to_date_n2(arg)])

NextFast ==
  \/ YearCount
  \/ MonthCount
  \/ MonthCountRoundingDown
  \/ MonthRoundingDown
  \/ DivisionBy1461

SpecFast == InitFast /\ [][NextFast]_vars

---------------------------------------------------------------------------
(* fast_eaf.cpp: the search for the coefficients of a fast EAF. The        *)
(* numbers are std::intmax_t values far from overflow, modelled as         *)
(* integers.                                                               *)

eaf_t(alpha, beta, delta) == [alpha |-> alpha, beta |-> beta, delta |-> delta]

\* operator / of C++ on a dividend of either sign and a positive divisor:
\* the quotient is truncated towards zero.
TruncatedDiv(a, b) == IF a >= 0 THEN a \div b ELSE -((-a) \div b)

Minimum(S) == CHOOSE x \in S : \A y \in S : x <= y

Maximum(S) == CHOOSE x \in S : \A y \in S : y <= x

fast_eaf_alpha_prime(round_up, kk, eaf) ==
  Let([div \in {(2^kk * eaf.alpha) \div eaf.delta} |->
  IF round_up THEN div + 1 ELSE div])

fast_eaf_epsilon(round_up, kk, eaf) ==
  Let([mod \in {(2^kk * eaf.alpha) % eaf.delta} |->
  IF round_up THEN eaf.delta - mod ELSE mod])

\* g(r) = alpha' * r - 2^k * f(r).
fast_eaf_g(alpha_prime, kk, eaf, r) ==
  Let([num \in {eaf.alpha * r + eaf.beta} |->
  Let([adjusted_num \in {IF num >= 0 THEN num ELSE num - (eaf.delta - 1)} |->
  alpha_prime * r - 2^kk * TruncatedDiv(adjusted_num, eaf.delta)])])

fast_eaf_beta_prime(round_up, alpha_prime, kk, eaf) ==
  IF round_up
  THEN -Minimum({fast_eaf_g(alpha_prime, kk, eaf, r) : r \in 0 .. eaf.delta - 1})
  ELSE 2^kk - 1
         - Maximum({fast_eaf_g(alpha_prime, kk, eaf, r) : r \in 0 .. eaf.delta - 1})

\* The quotient num / epsilon of M when rounding down: a division by zero
\* when epsilon is 0, whose outcome is undefined.
fast_eaf_divides_by_zero(round_up, alpha_prime, beta_prime, epsilon, kk, eaf) ==
  /\ ~round_up
  /\ epsilon = 0
  /\ \E r \in 0 .. eaf.delta - 1 :
       fast_eaf_g(alpha_prime, kk, eaf, r) + beta_prime >= 0

\* M(r), undefined standing for the value of a division by zero.
fast_eaf_M(round_up, alpha_prime, beta_prime, epsilon, kk, eaf, r, undefined) ==
  IF round_up
  THEN Let([num \in {2^kk - (fast_eaf_g(alpha_prime, kk, eaf, r) + beta_prime)} |->
       IF num <= 0 THEN r
       ELSE ((num + (epsilon - 1)) \div epsilon) * eaf.delta + r])
  ELSE Let([num \in {fast_eaf_g(alpha_prime, kk, eaf, r) + beta_prime} |->
       IF num < 0 THEN r
       ELSE ((IF epsilon = 0 THEN undefined ELSE num \div epsilon) + 1)
              * eaf.delta + r])

\* The values a division by zero is given where it does not trap.
DivisionByZeroValues == {-1, 0, 1}

\* What a call of get_fast_eaf can end with: the fast_eaf_t it returns, or,
\* where it divides by zero, the signal SIGFPE, nothing being returned, or
\* the fast_eaf_t computed from any value of the quotient.
get_fast_eaf(round_up, kk, eaf) ==
  Let([alpha_prime \in {fast_eaf_alpha_prime(round_up, kk, eaf)} |->
  Let([epsilon \in {fast_eaf_epsilon(round_up, kk, eaf)} |->
  Let([beta_prime \in {fast_eaf_beta_prime(round_up, alpha_prime, kk, eaf)} |->
  Let([undefined_behaviour \in
         {fast_eaf_divides_by_zero(round_up, alpha_prime, beta_prime, epsilon,
                                   kk, eaf)} |->
  {[signal |-> "none",
    fast |-> eaf_t(alpha_prime, beta_prime, 2^kk),
    k |-> kk,
    upper_bound |->
      Minimum({fast_eaf_M(round_up, alpha_prime, beta_prime, epsilon, kk, eaf,
                          r, undefined) : r \in 0 .. eaf.delta - 1})] :
     undefined \in IF undefined_behaviour THEN DivisionByZeroValues ELSE {0}}
  \cup (IF undefined_behaviour
        THEN {[signal |-> "SIGFPE", fast |-> eaf_t(0, 0, 0), k |-> kk,
               upper_bound |-> 0]}
        ELSE {})])])])])

\* The EAFs and exponents get_fast_eaf is called with: every EAF with small
\* coefficients, and the EAFs of the month count (153, -457, 5) and of the
\* month (5, 461, 153), whose fast alternatives the engine uses.
FastEafMaxK == 4

FastEafMaxAlpha == 5

FastEafMaxBeta == 3

FastEafMaxDelta == 6

FastEafInputs ==
  { [round_up |-> round_up, k |-> kk, eaf |-> eaf_t(alpha, beta, delta)] :
      round_up \in BOOLEAN, kk \in 1 .. FastEafMaxK,
      alpha \in 1 .. FastEafMaxAlpha,
      beta \in -FastEafMaxBeta .. FastEafMaxBeta,
      delta \in 1 .. FastEafMaxDelta }
  \cup { [round_up |-> round_up, k |-> 5, eaf |-> eaf_t(153, -457, 5)] :
           round_up \in BOOLEAN }
  \cup { [round_up |-> round_up, k |-> 16, eaf |-> eaf_t(5, 461, 153)] :
           round_up \in BOOLEAN }

\* main has checked alpha > 0, delta > 0 and 1 <= k <= 63, and is about to
\* call get_fast_eaf with the arguments arg.
InitFastEaf ==
  /\ NoEngine
  /\ T = uint32_t
  /\ year = Lit(0)
  /\ month = 1
  /\ called = "none"
  /\ ret = FALSE
  /\ arg \in FastEafInputs

GetFastEaf ==
  /\ called = "none"
  /\ \E fast_eaf \in get_fast_eaf(arg.round_up, arg.k, arg.eaf) :
       Evaluate("get_fast_eaf", fast_eaf)

NextFastEaf == GetFastEaf

SpecFastEaf == InitFastEaf /\ [][NextFastEaf]_vars

---------------------------------------------------------------------------
(* The proleptic Gregorian calendar, on the integers                       *)

LeapYear(y) == y % 4 = 0 /\ (y % 100 # 0 \/ y % 400 = 0)

MonthLength(y, m) ==
  IF m = 2 THEN (IF LeapYear(y) THEN 29 ELSE 28)
  ELSE IF m \in {4, 6, 9, 11} THEN 30 ELSE 31

\* The number of days from March 1 to the first day of the month m of the
\* year that starts in March: m is 3 for March, 13 for January, 14 for
\* February.
RECURSIVE DaysFromMarch1(_)
DaysFromMarch1(m) ==
  IF m <= 3 THEN 0
  ELSE DaysFromMarch1(m - 1) + MonthLength(1, ((m - 2) % 12) + 1)

\* The calendar day after the date u with years of type Y.
DayAfter(Y, u) ==
  IF u.day < MonthLength(Val(Y, u.year), u.month)
  THEN Date(u.year, u.month, u.day + 1)
  ELSE IF u.month < 12 THEN Date(u.year, u.month + 1, 1)
  ELSE Date(Of(Y, Val(Y, u.year) + 1), 1, 1)

\* A date of the calendar: 1 <= month <= 12 and 1 <= day <= the last day of
\* the month, by last_day_of_month and by the calendar alike.
ValidDate(Y, u) ==
  /\ 1 <= u.month /\ u.month <= 12
  /\ 1 <= u.day
  /\ u.day <= last_day_of_month(Y, u.year, u.month)
  /\ u.day <= MonthLength(Val(Y, u.year), u.month)

---------------------------------------------------------------------------
(* Claims on the engines, under Spec                                       *)

\* C1: round trip from rata die.  In every configuration, for every rata die
\* n with round_rata_die_min <= n <= round_rata_die_max,
\* to_rata_die(to_date(n)) == n in the storage type.
RoundTripFromRataDie ==
  (test = "to_date"
     /\ Between(A.R, A.round_rata_die_min, rata_die, A.round_rata_die_max))
  => out_rata_die = rata_die

\* to_date then to_rata_die gave back round_rata_die_max, after a walk, on
\* an engine whose round trip range ends before its to_date range does.
RoundTripFromRataDieWitness ==
  /\ test = "to_date"
  /\ op = "forward"
  /\ A.Y = int32_t
  /\ rata_die = A.round_rata_die_max
  /\ rata_die # A.rata_die_max
  /\ out_rata_die = rata_die

\* C2: round trip from date.  In every configuration, for every valid date d
\* with round_date_min <= d <= round_date_max, to_date(to_rata_die(d)) == d.
RoundTripFromDate ==
  (test = "to_rata_die"
     /\ ValidDate(A.Y, date)
     /\ DateBetween(A.Y, A.round_date_min, date, A.round_date_max))
  => out_date = date

\* to_rata_die then to_date gave back 29 February of a negative leap year.
RoundTripFromDateWitness ==
  /\ test = "to_rata_die"
  /\ op = "forward"
  /\ date = Date(Of(A.Y, -400), 2, 29)
  /\ DateBetween(A.Y, A.round_date_min, date, A.round_date_max)
  /\ out_date = date

\* C3: epoch identity.  In every configuration, with whatever epoch (the
\* fixed {0, 3, 1} of ugregorian_t, epochs in negative years, the first and
\* the last date of the 16-bit years, a leap day), to_date(0) == epoch and
\* to_rata_die(epoch) == 0.
EpochIdentity ==
  /\ (test = "to_date" /\ rata_die = Lit(0)) => out_date = A.epoch
  /\ (test = "to_rata_die" /\ date = A.epoch) => out_rata_die = Lit(0)

\* The loop over rata dies came back to 0 on the engine whose epoch is the
\* first date of the 16-bit years, and to_date(0) was that epoch.
EpochIdentityWitness ==
  /\ test = "to_date"
  /\ op = "backward"
  /\ rata_die = Lit(0)
  /\ A.epoch = Date(Of(int16_t, -32768), 1, 1)
  /\ out_date = A.epoch

\* C4: to_date adjacency.  In every configuration, for every rata die n with
\* rata_die_min <= n < rata_die_max, to_date(n + 1) is the calendar day after
\* to_date(n): day + 1 inside a month, else day 1 of the next month, else
\* 1 January of the next year, February ending on the 29th in leap years and
\* on the 28th otherwise.  The loops going forward and backward both show it.
ToDateAdjacency ==
  [][/\ (test = "to_date" /\ test' = "to_date" /\ op' = "forward")
          => /\ out_date' = DayAfter(A.Y, out_date)
             /\ out_date' = date'
     /\ (test = "to_date" /\ test' = "to_date" /\ op' = "backward")
          => /\ out_date = DayAfter(A.Y, out_date')
             /\ out_date' = date']_vars

\* to_date stepped from 28 February to 1 March in a common century year.
ToDateAdjacencyWitness ==
  /\ test = "to_date"
  /\ op = "forward"
  /\ k = 2
  /\ out_date = Date(Of(A.Y, 1900), 3, 1)
  /\ date = out_date

\* C5: to_rata_die adjacency.  In every configuration, for every valid date d
\* with date_min <= d < date_max, to_rata_die(next(d)) == to_rata_die(d) + 1,
\* next(d) being the following calendar day; hence to_rata_die increases
\* strictly with the date over [date_min, date_max].
ToRataDieAdjacency ==
  [][/\ (test = "to_rata_die" /\ test' = "to_rata_die" /\ op' = "forward")
          => /\ ValidDate(A.Y, date)
             /\ date' = DayAfter(A.Y, date)
             /\ out_rata_die' = Inc(A.R, out_rata_die)
             /\ out_rata_die' = rata_die'
             /\ DateLess(A.Y, date, date')
             /\ Less(A.R, out_rata_die, out_rata_die')
             /\ ~Less(A.R, to_rata_die(A, A.date_max), out_rata_die')
     /\ (test = "to_rata_die" /\ test' = "to_rata_die" /\ op' = "backward")
          => /\ ValidDate(A.Y, date')
             /\ date = DayAfter(A.Y, date')
             /\ out_rata_die = Inc(A.R, out_rata_die')
             /\ out_rata_die' = rata_die'
             /\ DateLess(A.Y, date', date)
             /\ Less(A.R, out_rata_die', out_rata_die)
             /\ ~Less(A.R, out_rata_die', to_rata_die(A, A.date_min))]_vars

\* to_rata_die stepped from 31 December of year -1 to 1 January of year 0.
ToRataDieAdjacencyWitness ==
  /\ test = "to_rata_die"
  /\ op = "forward"
  /\ A.Y = int16_t
  /\ date = Date(Of(A.Y, 0), 1, 1)
  /\ out_rata_die = rata_die

\* C9: to_date only produces valid dates.  In every configuration, for every
\* rata die n with rata_die_min <= n <= rata_die_max, to_date(n) has
\* 1 <= month <= 12 and 1 <= day <= last_day_of_month(year, month).
ToDateValid ==
  /\ (test = "to_date" /\ Between(A.R, A.rata_die_min, rata_die, A.rata_die_max))
       => ValidDate(A.Y, out_date)
  /\ (test = "to_rata_die"
        /\ Between(A.R, A.rata_die_min, out_rata_die, A.rata_die_max))
       => ValidDate(A.Y, out_date)

\* to_date was called with rata_die_max of an engine with 32-bit years, past
\* the largest date to_rata_die accepts, and returned a date of the calendar.
ToDateValidWitness ==
  /\ test = "to_date"
  /\ op = "forward"
  /\ A.Y = int32_t
  /\ rata_die = A.rata_die_max
  /\ DateLess(A.Y, A.date_max, out_date)
  /\ ValidDate(A.Y, out_date)

\* C10: the limits of to_date are sharp.  In every configuration, unless
\* rata_die_max == max<R> or to_date(rata_die_max) == max<date_t>,
\* to_date(rata_die_max + 1), computed in the storage type, is not the
\* calendar day after to_date(rata_die_max); and unless rata_die_min == min<R>
\* or to_date(rata_die_min) == min<date_t>, to_date(rata_die_min - 1) is not
\* the calendar day before to_date(rata_die_min).
ToDateLimitsSharp ==
  /\ (test = "to_date_limits" /\ op = "max")
       => /\ rata_die = Inc(A.R, A.rata_die_max)
          /\ out_date # next(A.Y, to_date(A, A.rata_die_max))
          /\ out_date # DayAfter(A.Y, to_date(A, A.rata_die_max))
  /\ (test = "to_date_limits" /\ op = "min")
       => /\ rata_die = Dec(A.R, A.rata_die_min)
          /\ out_date # previous(A.Y, to_date(A, A.rata_die_min))
          /\ to_date(A, A.rata_die_min) # DayAfter(A.Y, out_date)

\* One past rata_die_max, the engine with signed 32-bit years wrapped around
\* to its first date instead of going on to the next day.
ToDateLimitsSharpWitness ==
  /\ test = "to_date_limits"
  /\ op = "max"
  /\ A.Y = int32_t
  /\ out_date = A.date_min
  /\ date = next(A.Y, to_date(A, A.rata_die_max))

---------------------------------------------------------------------------
(* Claims on the primitives, under SpecPrimitives                          *)

\* The domain of the mcomp algorithm, [-536870800, 536870999].
InMcompDomain(n) ==
  ~Less(int32_t, n, Of(int32_t, mcomp_min))
    /\ ~Less(int32_t, Of(int32_t, mcomp_max), n)

\* C6: leap-year correctness.  For every 32-bit year y in
\* [-536870800, 536870999], is_leap_year(y), of calendar.hpp and of date.hpp,
\* is y % 4 == 0 && (y % 100 != 0 || y % 400 == 0); in particular, for a
\* multiple of 100 of that domain, divisibility by 400 is divisibility by 16,
\* the low four bits of the two's complement pattern being zero.
LeapYearCorrect ==
  (called \in {"is_leap_year", "date.hpp is_leap_year"}
     /\ T = int32_t /\ InMcompDomain(year))
  => /\ ret = LeapYear(Val(T, year))
     /\ Val(T, year) % 100 = 0
          => ((Val(T, year) % 400 = 0) <=> (BitAnd(year[2], 15) = 0))

\* is_leap_year answered for a negative multiple of 400 at the low end of the
\* domain, whose pattern has the sign bit set.
LeapYearCorrectWitness ==
  /\ called = "is_leap_year"
  /\ T = int32_t
  /\ year = Of(int32_t, mcomp_min)
  /\ ret = TRUE

\* C7: for every 32-bit n in [-536870800, 536870999], the multiply-and-compare
\* is_multiple_of_100(n), 42949673 * (n + 536870800) mod 2^32 < 42949669,
\* returns the value of n % 100 == 0.
IsMultipleOf100Correct ==
  (called = "is_multiple_of_100" /\ T = int32_t /\ InMcompDomain(year))
  => /\ ret = (Val(T, year) % 100 = 0)
     /\ ret = Less(uint32_t,
                   Mul32(42949673, Add32(year, Lit(536870800))),
                   Lit(42949669))

\* is_multiple_of_100 answered true for the largest multiple of 100 of the
\* domain.
IsMultipleOf100CorrectWitness ==
  /\ called = "is_multiple_of_100"
  /\ T = int32_t
  /\ year = Of(int32_t, mcomp_max - 99)
  /\ ret = TRUE

\* C8: for every year y and every month m in [1, 12], last_day_of_month(y, m),
\* of calendar.hpp and of date.hpp, is the length of the Gregorian month: 31
\* for m in {1, 3, 5, 7, 8, 10, 12}, 30 for m in {4, 6, 9, 11}, and for m == 2,
\* 29 when is_leap_year(y) and 28 otherwise; it always is in {28, 29, 30, 31}.
LastDayOfMonthCorrect ==
  /\ called = "last_day_of_month"
       => /\ ret \in {28, 29, 30, 31}
          /\ month \in {1, 3, 5, 7, 8, 10, 12} => ret = 31
          /\ month \in {4, 6, 9, 11} => ret = 30
          /\ month = 2 => ret = IF is_leap_year(T, year) THEN 29 ELSE 28
  /\ called = "date.hpp last_day_of_month"
       => /\ ret \in {28, 29, 30, 31}
          /\ month \in {1, 3, 5, 7, 8, 10, 12} => ret = 31
          /\ month \in {4, 6, 9, 11} => ret = 30
          /\ month = 2
               => ret = IF date_hpp_is_leap_year(T, year) THEN 29 ELSE 28

\* last_day_of_month answered 29 for the February of a leap year of 16 bits.
LastDayOfMonthCorrectWitness ==
  /\ called = "last_day_of_month"
  /\ T = int16_t
  /\ year = Of(int16_t, -400)
  /\ month = 2
  /\ ret = 29

\* C11: the limits of to_rata_die are sharp. Unless date_max is
\* max<date_t> or to_rata_die(date_max) is max<rata_die_t>, to_rata_die of
\* the day after date_max is not to_rata_die(date_max) + 1; unless date_min
\* is min<date_t> or to_rata_die(date_min) is min<rata_die_t>, to_rata_die
\* of the day before date_min is not to_rata_die(date_min) - 1. In
\* ugregorian_t the product 1461 * y0 exceeds rata_die_t on the day after
\* date_max and on no date from date_min to date_max.
ToRataDieLimitsSharp ==
  /\ test = "to_rata_die_limits" => out_rata_die # rata_die
  /\ (A.kind = "ugregorian_t" /\ test = "to_rata_die_limits" /\ op = "max")
       => /\ ugregorian_to_rata_die_product(A.Y, date)[1] >= p16
          /\ ugregorian_to_rata_die_product(A.Y, A.date_max)[1] < p16
  /\ (A.kind = "ugregorian_t" /\ test = "to_rata_die")
       => ugregorian_to_rata_die_product(A.Y, date)[1] < p16

\* to_rata_die_limits has called to_rata_die one day past each limit, in
\* ugregorian_t past date_max.
ToRataDieLimitsSharpWitness ==
  /\ test = "to_rata_die_limits"
  /\ \/ op = "min" /\ A.kind = "gregorian_t" /\ date = previous(A.Y, A.date_min)
     \/ op = "max" /\ A.kind = "ugregorian_t" /\ date = next(A.Y, A.date_max)

\* C12: the round trip range ends where the round trip ends, at its upper
\* limit and, for 16-bit years, at its lower limit. Unless
\* round_rata_die_max is max<rata_die_t>, to_rata_die(to_date(n)) is not n
\* for n = round_rata_die_max + 1. Unless round_rata_die_min is
\* min<rata_die_t>, to_rata_die(to_date(n)) is not n for
\* n = round_rata_die_min - 1 when the year type has 16 bits; when it has 32
\* bits, to_rata_die(to_date(n)) is n although to_date(n) is a date after
\* date_max.
RoundTripRangeSharp ==
  test = "round_trip_past" =>
    /\ op = "max" => out_rata_die # rata_die
    /\ (op = "min" /\ A.Y.bits = 16) => out_rata_die # rata_die
    /\ (op = "min" /\ A.Y.bits = 32)
         => /\ out_rata_die = rata_die
            /\ DateLess(A.Y, A.date_max, out_date)

\* The round trip was called one day past each limit: past the upper one,
\* and past the lower one of an engine with 32-bit years.
RoundTripRangeSharpWitness ==
  /\ test = "round_trip_past"
  /\ op = "min"
  /\ A.Y.bits = 32
  /\ rata_die = Dec(A.R, A.round_rata_die_min)
  /\ out_rata_die = rata_die

\* C12 as stated: the round trip range cannot be extended by one value on
\* either side, to_rata_die(to_date(n)) is not n one day past each limit.
RoundTripRangeMaximal ==
  test = "round_trip_past" => out_rata_die # rata_die

\* C13: gregorian_t<int16_t, int32_t> with the unix epoch covers the range
\* std::chrono requires: to_date(0) is 1970-01-01, round_rata_die_min <= -12687428 and
\* round_rata_die_max >= 11248737, and to_rata_die(to_date(n)) = n for the
\* rata dies n from -12687428 to 11248737.
StandardCompliance ==
  (A.kind = "gregorian_t" /\ A.Y = int16_t /\ A.epoch = unix_epoch(int16_t))
    => /\ (test = "to_date" /\ rata_die = Lit(0))
            => out_date = Date(Of(int16_t, 1970), 1, 1)
       /\ ~Less(A.R, Lit(chrono_days_min), A.round_rata_die_min)
       /\ ~Less(A.R, A.round_rata_die_max, Lit(chrono_days_max))
       /\ ( /\ test = "to_date"
            /\ Between(A.R, Lit(chrono_days_min), rata_die,
                       Lit(chrono_days_max)) )
            => out_rata_die = rata_die

\* The round trip ran at the first day std::chrono requires.
StandardComplianceWitness ==
  /\ A.kind = "gregorian_t"
  /\ A.Y = int16_t
  /\ A.epoch = unix_epoch(int16_t)
  /\ test = "to_date"
  /\ rata_die = Lit(chrono_days_min)
  /\ out_rata_die = rata_die
  /\ out_date = Date(Of(int16_t, -32767), 1, 1)

\* C14: with the unix epoch 1970-01-01, to_rata_die of 2000-02-29 minus
\* to_rata_die of 2000-01-01 is 59, and to_date(-1) is 1969-12-31.
UnixEpochScenario ==
  (A.kind = "gregorian_t" /\ A.epoch = unix_epoch(A.Y))
    => /\ (test = "to_rata_die" /\ date = Date(Of(A.Y, 2000), 2, 29))
            => Sub32(out_rata_die, to_rata_die(A, Date(Of(A.Y, 2000), 1, 1)))
                 = Lit(59)
       /\ (test = "to_date" /\ rata_die = Lit(-1))
            => out_date = Date(Of(A.Y, 1969), 12, 31)

\* to_rata_die was called with 2000-02-29 under the unix epoch and returned
\* 11016, 59 days after the 10957 of 2000-01-01.
UnixEpochScenarioWitness ==
  /\ A.kind = "gregorian_t"
  /\ A.epoch = unix_epoch(A.Y)
  /\ test = "to_rata_die"
  /\ date = Date(Of(A.Y, 2000), 2, 29)
  /\ out_rata_die = Lit(11016)
  /\ to_rata_die(A, Date(Of(A.Y, 2000), 1, 1)) = Lit(10957)

\* C15: the width of the year does not change the day count. For the same
\* epoch, a date of gregorian_t<int16_t, int32_t, Epoch> between its date_min
\* and date_max is between date_min and date_max of
\* gregorian_t<int32_t, int32_t, Epoch> too, and to_rata_die of both engines
\* returns the same rata die for it.
CrossWidthAgreement ==
  (A.kind = "gregorian_t" /\ A.Y = int16_t /\ test = "to_rata_die")
    => \E offset \in {gregorian_offset(int32_t, A.ug, Widen(A.epoch))} :
         /\ DateBetween(A.Y, A.date_min, date, A.date_max)
         /\ DateBetween(int32_t, gregorian_date_min(int32_t, A.ug, offset),
                        Widen(date),
                        gregorian_date_max(int32_t, A.ug, offset))
         /\ gregorian_to_rata_die(int32_t, offset, Widen(date)) = out_rata_die

\* to_rata_die of an engine with 16-bit years was called with a date of a
\* negative year, and the engine with 32-bit years and the same epoch, not
\* the unix epoch, returns the same rata die.
CrossWidthAgreementWitness ==
  /\ A.kind = "gregorian_t"
  /\ A.Y = int16_t
  /\ A.epoch # unix_epoch(int16_t)
  /\ test = "to_rata_die"
  /\ op = "forward"
  /\ Less(int16_t, date.year, Of(int16_t, 0))
  /\ gregorian_to_rata_die(
       int32_t, gregorian_offset(int32_t, A.ug, Widen(A.epoch)), Widen(date))
     = out_rata_die

\* Whether the date x of ugregorian_t is between its date_min and date_max.
InUDateDomain(x) == DateBetween(uint32_t, A.ug.date_min, x, A.ug.date_max)

\* C16: the dates gregorian_t accepts are translated into the domain of the
\* unsigned engine. to_udate(d) is between ugregorian_t::date_min and
\* ugregorian_t::date_max for every date d from date_min to date_max of
\* gregorian_t. With 16-bit years these are all the dates, min<date_t> to
\* max<date_t>. With 32-bit years date_min and date_max are translated to
\* ugregorian_t::date_min and ugregorian_t::date_max, and min<date_t>,
\* max<date_t>, the day before date_min and the day after date_max are
\* translated to dates outside the domain.
ToUdateInDomain ==
  A.kind = "gregorian_t" =>
    /\ test = "to_rata_die" => InUDateDomain(to_udate(A.Y, A.offset, date))
    /\ InUDateDomain(to_udate(A.Y, A.offset, A.date_min))
    /\ InUDateDomain(to_udate(A.Y, A.offset, A.date_max))
    /\ A.Y.bits = 16 => A.date_min = min_date(A.Y) /\ A.date_max = max_date(A.Y)
    /\ A.Y.bits = 32 =>
         /\ to_udate(A.Y, A.offset, A.date_min) = A.ug.date_min
         /\ to_udate(A.Y, A.offset, A.date_max) = A.ug.date_max
         /\ ~InUDateDomain(to_udate(A.Y, A.offset, min_date(A.Y)))
         /\ ~InUDateDomain(to_udate(A.Y, A.offset, max_date(A.Y)))
         /\ test = "to_rata_die_limits"
              => ~InUDateDomain(to_udate(A.Y, A.offset, date))

\* to_rata_die of an engine with 32-bit years was called with date_max,
\* which is translated to the last date of the unsigned engine.
ToUdateInDomainWitness ==
  /\ A.kind = "gregorian_t"
  /\ A.Y.bits = 32
  /\ test = "to_rata_die"
  /\ date = A.date_max
  /\ date # max_date(A.Y)
  /\ to_udate(A.Y, A.offset, date) = A.ug.date_max

\* C16 as stated: to_udate(d) is in the domain of the unsigned engine for
\* every valid date d of date_t, whatever its year.
ToUdateAlwaysInDomain ==
  (A.kind = "gregorian_t" /\ test \in {"to_rata_die", "to_rata_die_limits"})
    => InUDateDomain(to_udate(A.Y, A.offset, date))

\* Whether the rata die x of ugregorian_t is between its rata_die_min and
\* rata_die_max.
InURataDieDomain(x) ==
  Between(uint32_t, A.ug.rata_die_min, x, A.ug.rata_die_max)

\* C17: the rata dies gregorian_t accepts are translated into the domain of
\* the unsigned engine. to_urata_die(n) is between ugregorian_t::rata_die_min
\* and ugregorian_t::rata_die_max for every n from rata_die_min to
\* rata_die_max of gregorian_t. It is not for every n of rata_die_t:
\* min<rata_die_t> and max<rata_die_t> are translated outside. With 32-bit
\* years rata_die_min and rata_die_max are translated to the limits of the
\* unsigned engine, and the rata dies one before and one after them outside.
ToUrataDieInDomain ==
  A.kind = "gregorian_t" =>
    /\ test = "to_date" => InURataDieDomain(to_urata_die(A.offset, rata_die))
    /\ InURataDieDomain(to_urata_die(A.offset, A.rata_die_min))
    /\ InURataDieDomain(to_urata_die(A.offset, A.rata_die_max))
    /\ ~InURataDieDomain(to_urata_die(A.offset, MinOf(A.R)))
    /\ ~InURataDieDomain(to_urata_die(A.offset, MaxOf(A.R)))
    /\ A.Y.bits = 32 =>
         /\ to_urata_die(A.offset, A.rata_die_min) = A.ug.rata_die_min
         /\ to_urata_die(A.offset, A.rata_die_max) = A.ug.rata_die_max
         /\ test = "to_date_limits"
              => ~InURataDieDomain(to_urata_die(A.offset, rata_die))

\* to_date of an engine with 32-bit years was called with rata_die_max,
\* which is translated to the last rata die of the unsigned engine.
ToUrataDieInDomainWitness ==
  /\ A.kind = "gregorian_t"
  /\ A.Y.bits = 32
  /\ test = "to_date"
  /\ rata_die = A.rata_die_max
  /\ rata_die # MaxOf(A.R)
  /\ to_urata_die(A.offset, rata_die) = A.ug.rata_die_max

\* C17 as stated: to_urata_die(n) is in the domain of the unsigned engine
\* for every value n of rata_die_t.
ToUrataDieAlwaysInDomain ==
  ( /\ A.kind = "gregorian_t"
    /\ test \in {"to_date", "to_date_limits", "round_trip_past"} )
    => InURataDieDomain(to_urata_die(A.offset, rata_die))

\* C18: the round trip limits are consistent. to_rata_die(round_date_min)
\* is round_rata_die_min, to_rata_die(round_date_max) is round_rata_die_max,
\* to_date(round_rata_die_min) is round_date_min, to_date(round_rata_die_max)
\* is round_date_max, and rata_die_min <= round_rata_die_min <=
\* round_rata_die_max <= rata_die_max, date_min <= round_date_min <=
\* round_date_max <= date_max.
RoundLimitsConsistent ==
  /\ (test = "to_rata_die" /\ date = A.round_date_min)
       => out_rata_die = A.round_rata_die_min
  /\ (test = "to_rata_die" /\ date = A.round_date_max)
       => out_rata_die = A.round_rata_die_max
  /\ (test = "to_date" /\ rata_die = A.round_rata_die_min)
       => out_date = A.round_date_min
  /\ (test = "to_date" /\ rata_die = A.round_rata_die_max)
       => out_date = A.round_date_max
  /\ ~Less(A.R, A.round_rata_die_min, A.rata_die_min)
  /\ ~Less(A.R, A.round_rata_die_max, A.round_rata_die_min)
  /\ ~Less(A.R, A.rata_die_max, A.round_rata_die_max)
  /\ DateLessEq(A.Y, A.date_min, A.round_date_min)
  /\ DateLessEq(A.Y, A.round_date_min, A.round_date_max)
  /\ DateLessEq(A.Y, A.round_date_max, A.date_max)

\* to_rata_die was called with round_date_max where the round trip ends
\* before rata_die_max, and returned round_rata_die_max.
RoundLimitsConsistentWitness ==
  /\ test = "to_rata_die"
  /\ date = A.round_date_max
  /\ out_rata_die = A.round_rata_die_max
  /\ out_date = A.round_date_max
  /\ Less(A.R, A.round_rata_die_max, A.rata_die_max)

\* The tests that call to_date first and those that call to_rata_die first.
ToDateTests == {"to_date", "to_date_limits", "round_trip_past"}

ToRataDieTests == {"to_rata_die", "to_rata_die_limits"}

WideLess(a, b) == a[1] < b[1] \/ (a[1] = b[1] /\ a[2] < b[2])

\* The number of days from 0000-03-01 to December 31 of the year y, an
\* unsigned 32-bit year, as an integer: no reduction modulo 2^32.
DaysToDecember31(y) ==
  Let([p \in {MulWide(1461, y)} |->
  Let([yc4 \in {Norm(p[1] \div 4, ((p[1] % 4) * p16 + p[2]) \div 4)} |->
  Let([q1 \in {Div32(y, 100)} |->
  Let([q4 \in {Div32(q1, 4)} |->
  Norm(yc4[1] - q1[1] + q4[1], yc4[2] - q1[2] + q4[2] + 275 + 30)])])])])

\* C20: the derivation of rata_die_max of ugregorian_t. rata_die_max is the
\* smaller of (max<rata_die_t> - 3) / 4 and the number of days to
\* {max<year_t>, 12, 31}, the year not truncated. For every rata die n
\* passed to to_date, all at most rata_die_max, 4 * n + 3 does not exceed
\* max<rata_die_t> and the year of the date, before its conversion to
\* year_t, is at most max<year_t>. rata_die_max is 1073741823 for
\* ugregorian_t<uint32_t, uint32_t>, and to_date(rata_die_max) is
\* {65535, 12, 31} for ugregorian_t<uint16_t, uint32_t>.
UnsignedRataDieMax ==
  A.kind = "ugregorian_t" =>
    /\ \E n \in {Div32(Sub32(MaxOf(A.R), Lit(3)), 4)} :
         \E days \in {DaysToDecember31(Extend(A.Y, MaxOf(A.Y)))} :
           A.rata_die_max = IF WideLess(days, n) THEN days ELSE n
    /\ test = "to_date" =>
         /\ ~Less(A.R, A.rata_die_max, rata_die)
         /\ Norm(MulWide(4, rata_die)[1], MulWide(4, rata_die)[2] + 3)[1] < p16
         /\ ~Less(uint32_t, Extend(A.Y, MaxOf(A.Y)),
                  ugregorian_to_date(uint32_t, rata_die).year)
    /\ A.Y = uint32_t => A.rata_die_max = Lit(1073741823)
    /\ (A.Y = uint16_t /\ test = "to_date" /\ rata_die = A.rata_die_max)
         => out_date = Date(Of(uint16_t, 65535), 12, 31)

\* to_date of ugregorian_t<uint16_t, uint32_t> was called with rata_die_max,
\* the days to {65535, 12, 31} and fewer than (max<rata_die_t> - 3) / 4, and
\* returned {65535, 12, 31}.
UnsignedRataDieMaxWitness ==
  /\ A.kind = "ugregorian_t"
  /\ A.Y = uint16_t
  /\ test = "to_date"
  /\ rata_die = A.rata_die_max
  /\ rata_die = DaysToDecember31(Lit(65535))
  /\ Less(A.R, rata_die, Div32(Sub32(MaxOf(A.R), Lit(3)), 4))
  /\ out_date = Date(Of(uint16_t, 65535), 12, 31)

\* C21: the offset is centred. In gregorian_t the rata die of ugregorian_t
\* given to the rata die 0, offset.rata_die, is less than 2 * 146097 days
\* away from ugregorian_t::rata_die_max / 2; offset.year, read as a signed
\* number, is a multiple of 400; and ugregorian_t::to_rata_die of the
\* translated epoch is offset.rata_die.
OffsetCentred ==
  A.kind = "gregorian_t" =>
    /\ \E d \in {Val(int32_t, Sub32(A.offset.rata_die,
                                    Div32(A.ug.rata_die_max, 2)))} :
         -2 * 146097 < d /\ d < 2 * 146097
    /\ Val(int32_t, A.offset.year) % 400 = 0
    /\ (test = "to_rata_die" /\ date = A.epoch)
         => /\ ugregorian_to_rata_die(uint32_t, to_udate(A.Y, A.offset, date))
                 = A.offset.rata_die
            /\ out_rata_die = Lit(0)

\* to_rata_die was called with an epoch of a negative year, which is
\* translated to the rata die offset.rata_die of ugregorian_t, fewer than
\* 146097 days below the middle of its range.
OffsetCentredWitness ==
  /\ A.kind = "gregorian_t"
  /\ Less(A.Y, A.epoch.year, Of(A.Y, 0))
  /\ test = "to_rata_die"
  /\ date = A.epoch
  /\ ugregorian_to_rata_die(uint32_t, to_udate(A.Y, A.offset, date))
       = A.offset.rata_die
  /\ Less(uint32_t, A.offset.rata_die, Div32(A.ug.rata_die_max, 2))
  /\ Less(uint32_t, Sub32(Div32(A.ug.rata_die_max, 2), Lit(146097)),
          A.offset.rata_die)

\* C22: the year count. For every year y' with 1461 * y' at most
\* max<rata_die_t>, 1461 * y' / 4 - y' / 100 + (y' / 100) / 4 is
\* 365 * y' + y' / 4 - y' / 100 + y' / 400, and it is the number of days
\* from March 1 of the year 0 to March 1 of the year y': what to_rata_die
\* returns for March 1 of the year y', 0 for the year 0,
\* and 365 or 366 days more for the year after y', 366 when that year is a
\* leap year.
YearCountCorrect ==
  ( /\ called = "year_count"
    /\ ~Less(uint32_t, Div32(MaxOf(uint32_t), 1461), arg) )
    => /\ ret.fast = ret.slow
       /\ ret.fast = ret.march_1
       /\ arg = Lit(0) => ret.fast = Lit(0)
       /\ Less(uint32_t, arg, Div32(MaxOf(uint32_t), 1461))
            => Sub32(ret.fast_next, ret.fast)
                 = Lit(365 + (IF LeapYear(Val(uint32_t, arg) + 1) THEN 1 ELSE 0))

\* The year counts were evaluated at 2939744, the last year whose product
\* with 1461 is at most max<rata_die_t>, and are equal.
YearCountCorrectWitness ==
  /\ called = "year_count"
  /\ arg = Div32(MaxOf(uint32_t), 1461)
  /\ arg = Lit(2939744)
  /\ ret.fast = ret.slow

\* C23: the month count. For every month m' from 3 to 14,
\* (979 * m' - 2922) / 32 is the number of days from March 1 to the first
\* day of the month m' of the year that starts in March (0, 31, 61, 92, 122,
\* 153, 184, 214, 245, 275, 306, 337), it is (979 * m' - 2919) / 32 as
\* well, and it is what to_rata_die returns for the first day of that month
\* of the year that starts on 0000-03-01.
MonthCountCorrect ==
  ( /\ called = "month_count"
    /\ ~Less(uint32_t, arg, Lit(3))
    /\ ~Less(uint32_t, Lit(14), arg) )
    => /\ ret.date_hpp = Lit(DaysFromMarch1(arg[2]))
       /\ ret.calendar_hpp = ret.date_hpp
       /\ ret.calendar_hpp
            = ugregorian_to_rata_die(
                uint32_t,
                IF arg[2] > 12 THEN Date(Lit(1), arg[2] - 12, 1)
                ELSE Date(Lit(0), arg[2], 1))
       /\ arg = Lit(3) => ret.date_hpp = Lit(0)
       /\ arg = Lit(8) => ret.date_hpp = Lit(153)
       /\ arg = Lit(14) => ret.date_hpp = Lit(337)

\* The month counts were evaluated at 14, February, and both are 337.
MonthCountCorrectWitness ==
  /\ called = "month_count"
  /\ arg = Lit(14)
  /\ ret.date_hpp = Lit(337)
  /\ ret.calendar_hpp = Lit(337)

\* C24: the fast month count that rounds down. For every n from 3 to 33,
\* (979 * n - 2919) / 32 is (153 * n - 457) / 5 in std::uint32_t; at n = 34
\* the two differ.
MonthCountRoundingDownCorrect ==
  called = "month_count_rounding_down" =>
    /\ (~Less(uint32_t, arg, Lit(3)) /\ Less(uint32_t, arg, Lit(34)))
         => ret.month_count_fast = ret.month_count
    /\ arg = Lit(34) => ret.month_count_fast # ret.month_count

\* The two month counts were evaluated at 33, where both are 918, and the
\* loop body at 34, where they are 948 and 949.
MonthCountRoundingDownCorrectWitness ==
  /\ called = "month_count_rounding_down"
  /\ \/ arg = Lit(33) /\ ret.month_count_fast = Lit(918)
                      /\ ret.month_count = Lit(918)
     \/ arg = Lit(34) /\ ret.month_count_fast = Lit(948)
                      /\ ret.month_count = Lit(949)

\* C25: the fast month and day that round down. For every n from 0 to 733,
\* (2141 * n + 197913) / 2^16 is the month (5 * n + 461) / 153 and
\* (2141 * n + 197913) mod 2^16 / 2142 is the day n - (153 * month - 457) / 5;
\* at n = 734 the months differ. For every day r2 of the year from 0 to 365
\* the divisor 2141 of to_date gives the same day as the divisor 2142, and
\* the month and the day are those of the calendar that starts on March 1.
MonthRoundingDownCorrect ==
  called = "month_rounding_down" =>
    /\ Less(uint32_t, arg, Lit(734))
         => /\ ret.month_fast = ret.month
            /\ ret.day_fast = ret.day
    /\ arg = Lit(734) => ret.month_fast # ret.month
    /\ Less(uint32_t, arg, Lit(366))
         => /\ ret.to_date.q3 = ret.month_fast
            /\ ret.to_date.r3 = ret.day_fast
            /\ ret.to_date.q3[2] \in 3 .. 14
            /\ Lit(DaysFromMarch1(ret.to_date.q3[2]) + ret.to_date.r3[2])
                 = arg
            /\ ret.to_date.r3[2]
                 < MonthLength(0, ((ret.to_date.q3[2] - 1) % 12) + 1)

\* The loop body was evaluated at 733, where both months are 27 and both
\* days are 29, at 734, where the months are 26 and 27, and at 365,
\* February 29, where to_date has the month 14 and the day 28.
MonthRoundingDownCorrectWitness ==
  /\ called = "month_rounding_down"
  /\ \/ arg = Lit(733) /\ ret.month_fast = Lit(27) /\ ret.month = Lit(27)
                       /\ ret.day_fast = Lit(29) /\ ret.day = Lit(29)
     \/ arg = Lit(734) /\ ret.month_fast = Lit(26) /\ ret.month = Lit(27)
     \/ arg = Lit(365) /\ ret.to_date.q3 = Lit(14)
                       /\ ret.to_date.r3 = Lit(28)

\* C26: the fast division by 1461. For every n from 0 to 28825528, with
\* u = 2939745 * n in 64 bits, u / 2^32 is n / 1461 and
\* (u mod 2^32) / 2939745 is n mod 1461; both fail at n = 28825529. In
\* to_date the dividend n2 = 4 * r1 + 3 is at most 146099.
DivisionBy1461Correct ==
  called = "division_by_1461" =>
    /\ Less(uint32_t, arg, Lit(28825529))
         => /\ ret.fast.q = ret.q
            /\ ret.fast.r = ret.r
    /\ arg = Lit(28825529)
         => /\ ret.fast.q # ret.q
            /\ ret.fast.r # ret.r
    /\ ~Less(uint32_t, Lit(146099), ret.n2)

\* The division was evaluated at 28825528, where the quotient is 19729 and
\* the remainder 1459, at 28825529, where the fast quotient is 19730 and
\* the fast remainder 0, and at r0 = 146096, where n2 is 146099.
DivisionBy1461CorrectWitness ==
  /\ called = "division_by_1461"
  /\ \/ arg = Lit(28825528) /\ ret.fast = [q |-> Lit(19729), r |-> Lit(1459)]
     \/ arg = Lit(28825529) /\ ret.fast = [q |-> Lit(19730), r |-> Lit(0)]
                            /\ ret.q = Lit(19729) /\ ret.r = Lit(1460)
     \/ arg = Lit(146096) /\ ret.n2 = Lit(146099)

\* The date u of ugregorian_t<Y, std::uint32_t>, 400 years later.
Later400(Y, u) ==
  Date(Cast(Y, Add32(Extend(Y, u.year), Lit(400))), u.month, u.day)

\* Whether u and the date 400 years after u are both dates of the unsigned
\* engine E, whose year type is Y.
BothInDomain(Y, E, u) ==
  /\ Less(Y, u.year, Later400(Y, u).year)
  /\ DateBetween(Y, E.date_min, u, E.date_max)
  /\ DateBetween(Y, E.date_min, Later400(Y, u), E.date_max)

\* C27: the unsigned engine has a period of 400 years. For every date
\* (y, m, d) such that it and (y + 400, m, d) are between date_min and
\* date_max of ugregorian_t, to_rata_die of (y + 400, m, d) is to_rata_die
\* of (y, m, d) plus 146097. The dates are those the loops over dates call
\* ugregorian_t::to_rata_die with: the date of the loop for ugregorian_t,
\* its translation to_udate for gregorian_t.
PeriodOf400Years ==
  test = "to_rata_die" =>
    IF A.kind = "ugregorian_t"
    THEN BothInDomain(A.Y, A, date)
           => ugregorian_to_rata_die(A.Y, Later400(A.Y, date))
                = Add32(out_rata_die, Lit(146097))
    ELSE \A x \in {to_udate(A.Y, A.offset, date)} :
           BothInDomain(uint32_t, A.ug, x)
             => ugregorian_to_rata_die(uint32_t, Later400(uint32_t, x))
                  = Add32(to_urata_die(A.offset, out_rata_die), Lit(146097))

\* ugregorian_t::to_rata_die was called with a date of the year 1600 of
\* ugregorian_t<std::uint16_t, std::uint32_t>, or with the translation of a
\* date of the year -400 of a gregorian_t, and the date 400 years later is
\* 146097 days later.
PeriodOf400YearsWitness ==
  /\ test = "to_rata_die"
  /\ \/ /\ A = ugregorian_t(uint16_t)
        /\ date.year = Of(uint16_t, 1600)
        /\ BothInDomain(A.Y, A, date)
        /\ Later400(A.Y, date).year = Of(uint16_t, 2000)
        /\ ugregorian_to_rata_die(A.Y, Later400(A.Y, date))
             = Add32(out_rata_die, Lit(146097))
     \/ /\ A.kind = "gregorian_t"
        /\ date.year = Of(A.Y, -400)
        /\ BothInDomain(uint32_t, A.ug, to_udate(A.Y, A.offset, date))
        /\ ugregorian_to_rata_die(
             uint32_t, Later400(uint32_t, to_udate(A.Y, A.offset, date)))
             = Add32(to_urata_die(A.offset, out_rata_die), Lit(146097))

\* C28: gregorian_t<std::int16_t, std::int32_t> with the unix epoch is
\* neri_schneider. Its offset.year is -1468000 modulo 2^32 and its
\* offset.rata_die is 536895458; its to_rata_die returns what
\* neri_schneider::to_rata_die returns for every date from -32768-01-01 to
\* 32767-12-31 and its to_date what neri_schneider::to_date returns for
\* every rata die from -12687794 to 11248737; its epoch, date_min, date_max,
\* rata_die_min, rata_die_max and its four round_* limits are those
\* neri_schneider declares.
NeriSchneiderRefinement ==
  (A.kind = "gregorian_t" /\ A.Y = int16_t /\ A.epoch = unix_epoch(int16_t))
    => /\ A.offset.year = neri_schneider_z2
       /\ A.offset.rata_die = neri_schneider_r2_e3
       /\ (test = "to_rata_die"
             /\ DateBetween(int16_t, neri_schneider.date_min, date,
                            neri_schneider.date_max))
            => neri_schneider_to_rata_die(date) = out_rata_die
       /\ (test = "to_date"
             /\ Between(int32_t, neri_schneider.rata_die_min, rata_die,
                        neri_schneider.rata_die_max))
            => neri_schneider_to_date(rata_die) = out_date
       /\ neri_schneider_to_date(neri_schneider.rata_die_min) = A.date_min
       /\ neri_schneider_to_date(neri_schneider.rata_die_max) = A.date_max
       /\ neri_schneider_to_rata_die(neri_schneider.date_min) = A.rata_die_min
       /\ neri_schneider_to_rata_die(neri_schneider.date_max) = A.rata_die_max
       /\ \A f \in DOMAIN neri_schneider : A[f] = neri_schneider[f]

\* Both algorithms ran under the unix epoch at the last date, 32767-12-31,
\* which is the rata die 11248737 for both, and at the first rata die,
\* -12687794, which is -32768-01-01 for both.
NeriSchneiderRefinementWitness ==
  /\ A.kind = "gregorian_t"
  /\ A.Y = int16_t
  /\ A.epoch = unix_epoch(int16_t)
  /\ \/ /\ test = "to_rata_die"
        /\ date = Date(Of(int16_t, 32767), 12, 31)
        /\ out_rata_die = Lit(11248737)
        /\ neri_schneider_to_rata_die(date) = Lit(11248737)
     \/ /\ test = "to_date"
        /\ rata_die = Lit(-12687794)
        /\ out_date = Date(Of(int16_t, -32768), 1, 1)
        /\ neri_schneider_to_date(rata_die) = out_date

\* The date and the rata die the unsigned engine is called with in the
\* current step: those of the loop for ugregorian_t, their translations
\* to_udate and to_urata_die for gregorian_t.
UnsignedDate ==
  IF A.kind = "ugregorian_t"
  THEN Date(Extend(A.Y, date.year), date.month, date.day)
  ELSE to_udate(A.Y, A.offset, date)

UnsignedRataDie ==
  IF A.kind = "ugregorian_t" THEN rata_die
  ELSE to_urata_die(A.offset, rata_die)

\* C29: ugregorian_t<std::uint32_t, std::uint32_t> of date.hpp is that of
\* calendar.hpp. to_rata_die of both returns the same rata die for every
\* date from 0000-03-01 to date_max, to_date of both the same date for
\* every rata die from 0 to rata_die_max, and both have the same date_max
\* and rata_die_max.
DateHppRefinement ==
  /\ test = "to_rata_die"
       => \A x \in {UnsignedDate} :
            DateBetween(uint32_t, ugregorian_epoch, x,
                        date_hpp_date_max(uint32_t))
              => date_hpp_to_rata_die(uint32_t, x)
                   = ugregorian_to_rata_die(uint32_t, x)
  /\ test = "to_date"
       => \A n \in {UnsignedRataDie} :
            ~Less(uint32_t, date_hpp_rata_die_max(uint32_t), n)
              => date_hpp_to_date(uint32_t, n)
                   = ugregorian_to_date(uint32_t, n)
  /\ A = ugregorian_t(uint32_t)
       => /\ date_hpp_date_max(uint32_t) = A.date_max
          /\ date_hpp_rata_die_max(uint32_t) = A.rata_die_max
          /\ test = "to_rata_die"
               => date_hpp_to_rata_die(uint32_t, date) = out_rata_die
          /\ test = "to_date" => date_hpp_to_date(uint32_t, rata_die) = out_date

\* Both engines ran at rata_die_max of ugregorian_t<std::uint32_t,
\* std::uint32_t> and at its date_max, and both were called with the
\* last day of a February.
DateHppRefinementWitness ==
  /\ A.kind = "ugregorian_t"
  /\ A.Y = uint32_t
  /\ \/ /\ test = "to_date"
        /\ rata_die = A.rata_die_max
        /\ date_hpp_to_date(uint32_t, rata_die) = out_date
     \/ /\ test = "to_rata_die"
        /\ date = A.date_max
        /\ date_hpp_to_rata_die(uint32_t, date) = out_rata_die
     \/ /\ test = "to_rata_die"
        /\ date.month = 2
        /\ date.day = 29
        /\ date_hpp_to_rata_die(uint32_t, date) = out_rata_die

\* f(n) = floor((alpha * n + beta) / delta), the EAF of the coefficients
\* eaf, with the floor division of the integers.
EafValue(eaf, n) == (eaf.alpha * n + eaf.beta) \div eaf.delta

\* Whether the fast EAF of the fast_eaf_t result is the EAF eaf on
\* [0, upper_bound) and differs from it at upper_bound.
FastEafSharp(eaf, result) ==
  /\ \A n \in 0 .. result.upper_bound - 1 :
       EafValue(result.fast, n) = EafValue(eaf, n)
  /\ EafValue(result.fast, result.upper_bound)
       # EafValue(eaf, result.upper_bound)

\* Whether rounding down meets an exact reciprocal: delta divides
\* 2^k * alpha, and epsilon is 0.
ExactReciprocal(round_up, kk, eaf) ==
  ~round_up /\ (2^kk * eaf.alpha) % eaf.delta = 0

\* C30, as the specification states it: for every EAF with alpha > 0 and
\* delta > 0 and every k from 1 to 63, get_fast_eaf returns alpha', beta',
\* 2^k and N such that floor((alpha' * n + beta') / 2^k) is f(n) for every
\* n from 0 to N - 1 and is not f(N). The code does not do this where delta
\* divides 2^k * alpha and the rounding is down: get_fast_eaf divides by
\* zero.
FastEafVerified ==
  called = "get_fast_eaf" =>
    /\ ret.signal = "none"
    /\ ret.fast.delta = 2^arg.k
    /\ FastEafSharp(arg.eaf, ret)

\* C30, where the code meets it: get_fast_eaf returns a sharp upper bound
\* unless the rounding is down and delta divides 2^k * alpha; rounding down
\* with k = 5 on (153, -457, 5) it returns 979, -2919, 32 and 34, and with
\* k = 16 on (5, 461, 153) it returns 2141, 197913, 65536 and 734.
FastEafVerifiedUnlessExact ==
  called = "get_fast_eaf" =>
    /\ ~ExactReciprocal(arg.round_up, arg.k, arg.eaf)
         => /\ ret.signal = "none"
            /\ ret.fast.delta = 2^arg.k
            /\ FastEafSharp(arg.eaf, ret)
    /\ arg = [round_up |-> FALSE, k |-> 5, eaf |-> eaf_t(153, -457, 5)]
         => ret = [signal |-> "none", fast |-> eaf_t(979, -2919, 32),
                   k |-> 5, upper_bound |-> 34]
    /\ arg = [round_up |-> FALSE, k |-> 16, eaf |-> eaf_t(5, 461, 153)]
         => ret = [signal |-> "none", fast |-> eaf_t(2141, 197913, 65536),
                   k |-> 16, upper_bound |-> 734]

\* get_fast_eaf was called to round down with k = 1 on (1, 0, 2), where
\* 2^k * alpha is delta, and divided by zero: it trapped, or returned an
\* upper bound at which floor(n / 2) is still f(n).
FastEafDividedByZero ==
  /\ called = "get_fast_eaf"
  /\ arg = [round_up |-> FALSE, k |-> 1, eaf |-> eaf_t(1, 0, 2)]
  /\ \/ ret.signal = "SIGFPE"
     \/ /\ ret.signal = "none"
        /\ ret.fast = eaf_t(1, 0, 2)
        /\ EafValue(ret.fast, ret.upper_bound)
             = EafValue(arg.eaf, ret.upper_bound)

====
